---- MODULE Spec2Model ----
(***************************************************************************)
(* A model of osm_to_3dm.py: the attribute normaliser (parse_float), the   *)
(* height resolver (building_height), the ring assembler (assemble_rings), *)
(* the feature extractor (extract_way_feature, extract_relation_features,  *)
(* collect_features) and the orchestration of convert_osm_to_model.        *)
(*                                                                         *)
(* Conventions.  A Python str that the program parses is a sequence of     *)
(* one-character strings (<<"1", "2", ".", "5", "m">> is "12.5m"): a tag   *)
(* value that parse_float reads, a member role.  A str that the program    *)
(* only compares or looks up (a tag key, a member type, the value of the   *)
(* type tag) is a TLA+ string.  A dict is a function whose DOMAIN is the   *)
(* set of keys; a dict keyed by the ids 1..n, filled in that order, is a   *)
(* sequence.  A float is a record: a finite value is an IEEE 754 double,   *)
(* sign, significand and binary exponent, and nan, +inf and -inf are       *)
(* values of their own.  An Optional[Feature] is a sequence of no or one   *)
(* Feature.                                                                *)
(***************************************************************************)
EXTENDS Integers, Sequences, FiniteSets, TLC

VARIABLES
    tags,            \* building_height: the tag map handed in
    default_height,  \* building_height: keyword argument
    level_height,    \* building_height: keyword argument
    hres,            \* building_height: the returned pair, or NoResult
    hpc,             \* building_height: "idle", "call" or "done"
    fvalue,          \* parse_float: the argument, value
    parsed,          \* parse_float: the returned value, or None
    fpc,             \* parse_float: "idle", "call" or "done"
    node_sequences,  \* assemble_rings: the argument
    unused,          \* assemble_rings: the pool of unconsumed fragments
    rings,           \* assemble_rings: the rings built so far
    ring,            \* assemble_rings: the ring being stitched
    pc,              \* assemble_rings: "idle", "outer", "inner", "close", "done"
    nodes,           \* the tag-graph: id -> (lat, lon)
    ways,            \* the tag-graph: id -> [refs, tags]
    relations,       \* the tag-graph: id -> [members, tags]
    features,        \* the list of Features extracted
    origin,          \* determine_origin's result
    calls,           \* build_model: its calls of add_feature_to_model
    model,           \* build_model's result
    stage            \* where convert_osm_to_model stands

fvars == <<fvalue, parsed, fpc>>
hvars == <<tags, default_height, level_height, hres, hpc, fvalue, parsed, fpc>>
avars == <<node_sequences, unused, rings, ring, pc>>
gvars == <<nodes, ways, relations>>
pvars == <<nodes, ways, relations, features, origin, calls, model, stage>>

vars == <<tags, default_height, level_height, hres, hpc, fvalue, parsed, fpc,
          node_sequences, unused, rings, ring, pc,
          nodes, ways, relations, features, origin, calls, model, stage>>

(***************************************************************************)
(* Naturals of any size                                                    *)
(*                                                                         *)
(* A natural is a sequence of limbs, the least significant first, each in  *)
(* 0..Base-1, the last one not 0; <<>> is 0.  They carry the 53-bit        *)
(* significands of the floats and the digits of decimal texts.             *)
(***************************************************************************)
Base == 2^15

Abs(x) == IF x < 0 THEN -x ELSE x
Min(x, y) == IF x < y THEN x ELSE y
Max(x, y) == IF x > y THEN x ELSE y

\* Limb i of a, 0 beyond its last.
At(a, i) == IF i <= Len(a) THEN a[i] ELSE 0

\* The index of the last limb of a that is not 0, or 0.
HiIndex(a) ==
    CHOOSE i \in 0..Len(a) :
        (i = 0 \/ a[i] # 0) /\ \A j \in (i + 1)..Len(a) : a[j] = 0

\* a without its leading zero limbs
Trim(a) ==
    IF a = <<>> \/ a[Len(a)] # 0 THEN a ELSE SubSeq(a, 1, HiIndex(a))

RECURSIVE FromNat(_)
FromNat(n) == IF n = 0 THEN <<>> ELSE <<n % Base>> \o FromNat(n \div Base)

Limb0(a) == IF a = <<>> THEN 0 ELSE Head(a)

\* The operations below work on the limbs lo..hi of their operands, the
\* lower half before the upper, which takes the carry of the lower.  A
\* result <<limbs, c>> is the limbs of the range and the carry out of it.
Carried(low, high) == <<low \o high[1], high[2]>>

\* The limbs with a carry out of them as one more limb.
WithCarry(r) == IF r[2] = 0 THEN r[1] ELSE Append(r[1], r[2])

\* a + b + c, c a carry
RECURSIVE AddRange(_, _, _, _, _)
AddLimb(t) == <<<<t % Base>>, t \div Base>>
AddHigh(a, b, mid, hi, low) ==
    Carried(low[1], AddRange(a, b, mid + 1, hi, low[2]))
AddRange(a, b, lo, hi, c) ==
    IF lo = hi THEN AddLimb(At(a, lo) + At(b, lo) + c)
    ELSE AddHigh(a, b, (lo + hi) \div 2, hi,
                 AddRange(a, b, lo, (lo + hi) \div 2, c))

\* a + b
AddB(a, b) ==
    IF a = <<>> THEN b
    ELSE IF b = <<>> THEN a
    ELSE WithCarry(AddRange(a, b, 1, Max(Len(a), Len(b)), 0))

\* a - b - br for a >= b + br, br a borrow
RECURSIVE SubRange(_, _, _, _, _)
SubLimb(t) == IF t < 0 THEN <<<<t + Base>>, 1>> ELSE <<<<t>>, 0>>
SubHigh(a, b, mid, hi, low) ==
    Carried(low[1], SubRange(a, b, mid + 1, hi, low[2]))
SubRange(a, b, lo, hi, br) ==
    IF lo = hi THEN SubLimb(a[lo] - At(b, lo) - br)
    ELSE SubHigh(a, b, (lo + hi) \div 2, hi,
                 SubRange(a, b, lo, (lo + hi) \div 2, br))

\* a - b for a >= b
SubB(a, b) ==
    IF b = <<>> THEN a ELSE Trim(SubRange(a, b, 1, Len(a), 0)[1])

\* -1, 0 or 1 as the limbs lo..hi of a are below, equal to or above those
\* of b
RECURSIVE CmpRange(_, _, _, _)
CmpLow(a, b, lo, mid, high) ==
    IF high # 0 THEN high ELSE CmpRange(a, b, lo, mid)
CmpRange(a, b, lo, hi) ==
    IF lo = hi
    THEN (IF a[lo] = b[lo] THEN 0 ELSE IF a[lo] < b[lo] THEN -1 ELSE 1)
    ELSE CmpLow(a, b, lo, (lo + hi) \div 2,
                CmpRange(a, b, (lo + hi) \div 2 + 1, hi))

\* -1, 0 or 1 as a < b, a = b or a > b
CmpB(a, b) ==
    IF Len(a) # Len(b) THEN (IF Len(a) < Len(b) THEN -1 ELSE 1)
    ELSE IF a = <<>> THEN 0
    ELSE CmpRange(a, b, 1, Len(a))

\* a * k + c for a limb k # 0 and a carry c
RECURSIVE MulLimbs(_, _, _, _, _)
MulHigh(a, k, mid, hi, low) ==
    Carried(low[1], MulLimbs(a, k, mid + 1, hi, low[2]))
MulLimbs(a, k, lo, hi, c) ==
    IF lo = hi THEN AddLimb(a[lo] * k + c)
    ELSE MulHigh(a, k, (lo + hi) \div 2, hi,
                 MulLimbs(a, k, lo, (lo + hi) \div 2, c))

\* a * k for a limb k
MulSmall(a, k) ==
    IF a = <<>> \/ k = 0 THEN <<>>
    ELSE WithCarry(MulLimbs(a, k, 1, Len(a), 0))

\* a * Base^j
ShiftLimbs(a, j) == IF a = <<>> THEN <<>> ELSE [i \in 1..j |-> 0] \o a

\* a * (the limbs lo..hi of b, in their places)
RECURSIVE MulRange(_, _, _, _)
MulSplit(a, b, lo, hi, mid) ==
    AddB(MulRange(a, b, lo, mid), MulRange(a, b, mid + 1, hi))
MulRange(a, b, lo, hi) ==
    IF lo = hi THEN ShiftLimbs(MulSmall(a, b[lo]), lo - 1)
    ELSE MulSplit(a, b, lo, hi, (lo + hi) \div 2)

\* a * b
MulB(a, b) ==
    IF a = <<>> \/ b = <<>> THEN <<>> ELSE MulRange(a, b, 1, Len(b))

\* <<q, r2>> with r * Base^(hi - lo + 1) + (the limbs lo..hi of a) =
\* q * k + r2, for a limb k # 0 and r < k: the upper half before the lower,
\* which takes its remainder; the limbs of q the most significant first
RECURSIVE DivRange(_, _, _, _, _)
DivLow(a, k, lo, mid, high) ==
    Carried(high[1], DivRange(a, k, lo, mid, high[2]))
DivRange(a, k, lo, hi, r) ==
    IF lo = hi THEN <<<<(r * Base + a[lo]) \div k>>, (r * Base + a[lo]) % k>>
    ELSE DivLow(a, k, lo, (lo + hi) \div 2,
                DivRange(a, k, (lo + hi) \div 2 + 1, hi, r))

\* The limbs of a in the opposite order.
Flipped(a) == [i \in 1..Len(a) |-> a[Len(a) + 1 - i]] \o <<>>
DivTrim(qr) == <<Trim(qr[1]), qr[2]>>
DivReverse(qr) == <<Trim(Flipped(qr[1])), qr[2]>>

\* <<a div k, a mod k>> for a limb k # 0
DivSmall(a, k) ==
    IF a = <<>> THEN <<<<>>, 0>> ELSE DivReverse(DivRange(a, k, 1, Len(a), 0))

\* The number of bits of a limb x: 2^(BitsOf(x) - 1) <= x < 2^BitsOf(x)
BitsOf(x) ==
    IF x >= 128
    THEN (IF x >= 2048
          THEN (IF x >= 8192 THEN (IF x >= 16384 THEN 15 ELSE 14)
                ELSE (IF x >= 4096 THEN 13 ELSE 12))
          ELSE (IF x >= 512 THEN (IF x >= 1024 THEN 11 ELSE 10)
                ELSE (IF x >= 256 THEN 9 ELSE 8)))
    ELSE (IF x >= 8
          THEN (IF x >= 32 THEN (IF x >= 64 THEN 7 ELSE 6)
                ELSE (IF x >= 16 THEN 5 ELSE 4))
          ELSE (IF x >= 2 THEN (IF x >= 4 THEN 3 ELSE 2)
                ELSE x))

\* The number of bits of a: 2^(BitLen(a) - 1) <= a < 2^BitLen(a)
BitLen(a) == IF a = <<>> THEN 0 ELSE 15 * (Len(a) - 1) + BitsOf(a[Len(a)])

\* a * 2^r
Shl(a, r) ==
    IF r = 0 THEN a
    ELSE IF r % 15 = 0 THEN ShiftLimbs(a, r \div 15)
    ELSE ShiftLimbs(MulSmall(a, 2^(r % 15)), r \div 15)

\* <<a div 2^r, whether a mod 2^r # 0>>
ShrJoin(qr, lost) == <<qr[1], lost \/ qr[2] # 0>>
Shr(a, r) ==
    IF r = 0 THEN <<a, FALSE>>
    ELSE
    ShrJoin(DivSmall(SubSeq(a, Min(r \div 15, Len(a)) + 1, Len(a)), 2^(r % 15)),
            \E i \in 1..Min(r \div 15, Len(a)) : a[i] # 0)

\* The largest d in lo..hi with d * q <= r, where lo * q <= r < (hi + 1) * q
RECURSIVE Digit(_, _, _, _)
DigitHalf(r, q, lo, hi, mid) ==
    IF CmpB(MulSmall(q, mid), r) <= 0
    THEN Digit(r, q, mid, hi)
    ELSE Digit(r, q, lo, mid - 1)
Digit(r, q, lo, hi) ==
    IF lo = hi THEN lo ELSE DigitHalf(r, q, lo, hi, (lo + hi + 1) \div 2)

\* Long division, a limb of the quotient at a time: the limbs i..1 of p are
\* still to bring down, r < q is the remainder so far.
RECURSIVE DivLimbs(_, _, _, _)
DivJoin(low, q) == <<low[1] \o q, low[2]>>
DivSub(p, q, i, r2, d) ==
    DivJoin(DivLimbs(p, q, i - 1, SubB(r2, MulSmall(q, d))), <<d>>)
DivDigit(p, q, i, r2) == DivSub(p, q, i, r2, Digit(r2, q, 0, Base - 1))
DivLimbs(p, q, i, r) ==
    IF i = 0 THEN <<<<>>, r>>
    ELSE DivDigit(p, q, i, Trim(<<p[i]>> \o r))

\* <<p div q, p mod q>> for q of two limbs or more
DivLong(p, q) ==
    IF Len(p) < Len(q) THEN <<<<>>, p>>
    ELSE DivTrim(DivLimbs(p, q, Len(p) - Len(q) + 1,
                          SubSeq(p, Len(p) - Len(q) + 2, Len(p))))

DivShort(qr) == <<qr[1], FromNat(qr[2])>>
DivB(p, q) == IF Len(q) = 1 THEN DivShort(DivSmall(p, q[1])) ELSE DivLong(p, q)

RECURSIVE Pow10(_)
Pow10Sq(x) == MulB(x, x)
Pow10(e) ==
    IF e = 0 THEN <<1>>
    ELSE IF e % 2 = 1 THEN MulSmall(Pow10(e - 1), 10)
    ELSE Pow10Sq(Pow10(e \div 2))

(***************************************************************************)
(* Floats                                                                  *)
(*                                                                         *)
(* A Python float is an IEEE 754 double.  A finite one is the record       *)
(* [k |-> "fin", s, m, e] of the value s * m * 2^e: s is 1 or -1, m an odd *)
(* natural below 2^53 and e >= -1074, or m = <<>> and e = 0 for 0.0 and    *)
(* -0.0.  Every operation computes the exact result and rounds it to the   *)
(* nearest double, ties to the even significand, as the hardware does.     *)
(***************************************************************************)
Zero(s) == [k |-> "fin", s |-> s, m |-> <<>>, e |-> 0]
Inf(s) == [k |-> "inf", s |-> s, m |-> <<>>, e |-> 0]
NaN == [k |-> "nan", s |-> 1, m |-> <<>>, e |-> 0]
PosInf == Inf(1)
NegInf == Inf(-1)
\* Python's None, where a float was expected.
None == [k |-> "none", s |-> 1, m |-> <<>>, e |-> 0]
\* The operation raises ZeroDivisionError.
ZeroDivisionError == [k |-> "ZeroDivisionError", s |-> 1, m |-> <<>>, e |-> 0]

RECURSIVE TrailingZeros(_)
TrailingZeros(x) == IF x % 2 = 1 THEN 0 ELSE 1 + TrailingZeros(x \div 2)

\* The double s * m * 2^e, for m # 0 of 53 bits or fewer and e >= -1074: the
\* record with the odd significand.
RECURSIVE Odd(_, _, _)
OddBits(s, m, e, tz) ==
    [k |-> "fin", s |-> s,
     m |-> Shr(m, tz)[1],
     e |-> e + tz]
Odd(s, m, e) ==
    IF Head(m) = 0 THEN Odd(s, Tail(m), e + 15)
    ELSE OddBits(s, m, e, TrailingZeros(Head(m)))

\* The same, with a result of 2^1024 or more overflowing to infinity.
Canon(s, m, e) ==
    IF m = <<>> THEN Zero(s)
    ELSE IF BitLen(m) + e > 1024 THEN Inf(s)
    ELSE Odd(s, m, e)

\* Round to nearest, ties to even: qr is <<significand, the first bit
\* dropped>>, sticky tells whether a later dropped bit was 1.
RoundBits(s, qr, sticky, e) ==
    IF qr[2] = 1 /\ (sticky \/ Limb0(qr[1]) % 2 = 1)
    THEN Canon(s, AddB(qr[1], <<1>>), e)
    ELSE Canon(s, qr[1], e)

RoundShifted(s, qs, st, e) == RoundBits(s, DivSmall(qs[1], 2), qs[2] \/ st, e)

RoundDrop(s, m, st, e, drop) ==
    IF drop <= 0 THEN Canon(s, m, e)
    ELSE RoundShifted(s, Shr(m, drop - 1), st, e + drop)

\* The double nearest to s * (m + f) * 2^e, where 0 < f < 1 if st and f = 0
\* otherwise (with st, m has 55 bits or more): the bits below the 53rd, and
\* those below 2^-1074, are dropped.
Round(s, m, st, e) == RoundDrop(s, m, st, e, Max(BitLen(m) - 53, -1074 - e))

RoundQR(s, qr, st, e) == Round(s, qr[1], st \/ qr[2] # <<>>, e)

\* The double nearest to s * (p / q) * 2^e from a quotient of 55 bits or
\* more and whether it is exact: p takes sh more bits if sh >= 0 and loses
\* its last -sh bits otherwise, which are beyond the 55.
RoundLong(s, ps, q, e) == RoundQR(s, DivB(ps[1], q), ps[2], e)
RoundQuot(s, p, q, e, sh) ==
    IF sh >= 0 THEN RoundQR(s, DivB(Shl(p, sh), q), FALSE, e - sh)
    ELSE RoundLong(s, Shr(p, -sh), q, e - sh)

\* The double nearest to s * (p / q) * 2^e, q # 0.
RoundRatio(s, p, q, e) ==
    IF p = <<>> THEN Zero(s)
    ELSE IF q = <<1>> THEN Round(s, p, FALSE, e)
    ELSE RoundQuot(s, p, q, e, 55 + BitLen(q) - BitLen(p))

\* The float n / d for ints n and d # 0: the double nearest to the fraction.
Fin(n, d) ==
    RoundRatio(IF (n < 0) # (d < 0) THEN -1 ELSE 1,
               FromNat(Abs(n)), FromNat(Abs(d)), 0)

\* -a
FNeg(a) == IF a.k \in {"fin", "inf"} THEN [a EXCEPT !.s = -a.s] ELSE a

\* The exponent above the highest bit of a finite a # 0.
Top(a) == BitLen(a.m) + a.e

SubAligned(sa, ma, sb, mb, e, c) ==
    IF c = 0 THEN Zero(1)
    ELSE IF c > 0 THEN Round(sa, SubB(ma, mb), FALSE, e)
    ELSE Round(sb, SubB(mb, ma), FALSE, e)

AddAligned(sa, ma, sb, mb, e) ==
    IF sa = sb THEN Round(sa, AddB(ma, mb), FALSE, e)
    ELSE SubAligned(sa, ma, sb, mb, e, CmpB(ma, mb))

\* a + b on finite floats.  An operand more than 60 binary places below the
\* other is less than a quarter of the gap between the other and its
\* neighbours: the sum rounds to the other.
FinAdd(a, b) ==
    IF a.m = <<>> /\ b.m = <<>> THEN Zero(IF a.s = -1 /\ b.s = -1 THEN -1 ELSE 1)
    ELSE IF a.m = <<>> THEN b
    ELSE IF b.m = <<>> THEN a
    ELSE IF Top(b) < Top(a) - 60 THEN a
    ELSE IF Top(a) < Top(b) - 60 THEN b
    ELSE IF a.e <= b.e THEN AddAligned(a.s, a.m, b.s, Shl(b.m, b.e - a.e), a.e)
    ELSE AddAligned(a.s, Shl(a.m, a.e - b.e), b.s, b.m, b.e)

\* a + b on floats.
FAdd(a, b) ==
    IF a.k = "nan" \/ b.k = "nan" THEN NaN
    ELSE IF a.k = "inf" /\ b.k = "inf" THEN (IF a.s = b.s THEN a ELSE NaN)
    ELSE IF a.k = "inf" THEN a
    ELSE IF b.k = "inf" THEN b
    ELSE FinAdd(a, b)

\* a * b on floats.
FMul(a, b) ==
    IF a.k = "nan" \/ b.k = "nan" THEN NaN
    ELSE IF a.k = "inf" \/ b.k = "inf"
         THEN (IF (a.k = "fin" /\ a.m = <<>>) \/ (b.k = "fin" /\ b.m = <<>>)
               THEN NaN
               ELSE Inf(a.s * b.s))
    ELSE IF a.m = <<>> \/ b.m = <<>> THEN Zero(a.s * b.s)
    ELSE Round(a.s * b.s, MulB(a.m, b.m), FALSE, a.e + b.e)

CmpMag(a, b) ==
    IF Top(a) # Top(b) THEN (IF Top(a) < Top(b) THEN -1 ELSE 1)
    ELSE IF a.e <= b.e THEN CmpB(a.m, Shl(b.m, b.e - a.e))
    ELSE CmpB(Shl(a.m, a.e - b.e), b.m)

SignVal(a) == IF a.m = <<>> THEN 0 ELSE a.s

\* -1, 0 or 1 as a < b, a = b or a > b, on finite floats (0.0 = -0.0).
CmpFin(a, b) ==
    IF SignVal(a) # SignVal(b) THEN (IF SignVal(a) < SignVal(b) THEN -1 ELSE 1)
    ELSE IF SignVal(a) = 0 THEN 0
    ELSE SignVal(a) * CmpMag(a, b)

\* a <= b on floats: every comparison with nan is False.
FLe(a, b) ==
    IF a.k = "nan" \/ b.k = "nan" THEN FALSE
    ELSE IF a.k = "inf" THEN (a.s < 0 \/ b = PosInf)
    ELSE IF b.k = "inf" THEN b.s > 0
    ELSE CmpFin(a, b) <= 0

\* a > b on floats.
FGt(a, b) ==
    IF a.k = "nan" \/ b.k = "nan" THEN FALSE ELSE ~FLe(a, b)

\* a < b on floats.
FLt(a, b) ==
    IF a.k = "nan" \/ b.k = "nan" THEN FALSE
    ELSE IF a.k = "inf" THEN a.s < 0 /\ b # NegInf
    ELSE IF b.k = "inf" THEN b.s > 0
    ELSE CmpFin(a, b) < 0

\* a - b on floats.
FSub(a, b) == FAdd(a, FNeg(b))

\* a / b on floats.
FDiv(a, b) ==
    IF b.k = "fin" /\ b.m = <<>> THEN ZeroDivisionError
    ELSE IF a.k = "nan" \/ b.k = "nan" THEN NaN
    ELSE IF a.k = "inf" THEN (IF b.k = "inf" THEN NaN ELSE Inf(a.s * b.s))
    ELSE IF b.k = "inf" THEN Zero(a.s * b.s)
    ELSE RoundRatio(a.s * b.s, a.m, b.m, a.e - b.e)

\* Python's max(a, b): a, unless b > a.
FMax(a, b) == IF FGt(b, a) THEN b ELSE a

\* x or y on floats: y when x is 0.0 or -0.0.
FOr(x, y) == IF x.k = "fin" /\ x.m = <<>> THEN y ELSE x

(***************************************************************************)
(* str helpers                                                             *)
(***************************************************************************)
\* A character is a one-character string; one that a TLA+ string cannot
\* hold stands as "chr(n)", n its code point.
Chr(cp) == "chr(" \o ToString(cp) \o ")"

\* The characters str.strip() removes: those str.isspace() accepts.
Whitespace ==
    {" ", "\t", "\n", "\r", "\f"}
        \cup {Chr(cp) : cp \in {11, 28, 29, 30, 31, 133, 160, 5760}
                               \cup 8192..8202
                               \cup {8232, 8233, 8239, 8287, 12288}}

\* The characters float() removes around the number: the same, but for the
\* four separators chr(28)..chr(31).
FloatWhitespace == Whitespace \ {Chr(cp) : cp \in 28..31}

AsciiDigits == <<"0", "1", "2", "3", "4", "5", "6", "7", "8", "9">>

\* The code points of the digit zero of every script: the nine that follow
\* each are its digits 1..9 (the characters of category Nd).
DigitZeros ==
    {48, 1632, 1776, 1984, 2406, 2534, 2662, 2790, 2918, 3046, 3174, 3302,
     3430, 3558, 3664, 3792, 3872, 4160, 4240, 6112, 6160, 6470, 6608, 6784,
     6800, 6992, 7088, 7232, 7248, 42528, 43216, 43264, 43472, 43504, 43600,
     44016, 65296, 66720, 68912, 69734, 69872, 69942, 70096, 70384, 70736,
     70864, 71248, 71360, 71472, 71904, 72016, 72784, 73040, 73120, 92768,
     92864, 93008, 120782, 120792, 120802, 120812, 120822, 123200, 123632,
     125264, 130032}

\* Digit v of the script whose zero is chr(z).
DigitOf(z, v) == IF z = 48 THEN AsciiDigits[v + 1] ELSE Chr(z + v)

\* The characters float() reads as a decimal digit.
Digits == {DigitOf(z, v) : z \in DigitZeros, v \in 0..9}

DigitVal(c) ==
    CASE c = "0" -> 0 [] c = "1" -> 1 [] c = "2" -> 2 [] c = "3" -> 3
      [] c = "4" -> 4 [] c = "5" -> 5 [] c = "6" -> 6 [] c = "7" -> 7
      [] c = "8" -> 8 [] c = "9" -> 9
      [] OTHER -> CHOOSE v \in 0..9 : \E z \in DigitZeros : c = DigitOf(z, v)

\* float() matches "inf", "nan", "infinity" and the exponent's "e" in either
\* case: the ASCII letters in lower case.
AsciiLowerChar(c) ==
    CASE c = "A" -> "a" [] c = "B" -> "b" [] c = "C" -> "c" [] c = "D" -> "d"
      [] c = "E" -> "e" [] c = "F" -> "f" [] c = "G" -> "g" [] c = "H" -> "h"
      [] c = "I" -> "i" [] c = "J" -> "j" [] c = "K" -> "k" [] c = "L" -> "l"
      [] c = "M" -> "m" [] c = "N" -> "n" [] c = "O" -> "o" [] c = "P" -> "p"
      [] c = "Q" -> "q" [] c = "R" -> "r" [] c = "S" -> "s" [] c = "T" -> "t"
      [] c = "U" -> "u" [] c = "V" -> "v" [] c = "W" -> "w" [] c = "X" -> "x"
      [] c = "Y" -> "y" [] c = "Z" -> "z"
      [] OTHER -> c

AsciiLower(s) == [i \in 1..Len(s) |-> AsciiLowerChar(s[i])]

\* str.lower() beyond ASCII: <<first, last, step, d>> lowers the code points
\* first, first + step, ..., last to the code point d further.
LowerRanges ==
    {<<192, 214, 1, 32>>, <<216, 222, 1, 32>>, <<256, 302, 2, 1>>,
     <<306, 310, 2, 1>>, <<313, 327, 2, 1>>, <<330, 374, 2, 1>>,
     <<376, 376, 1, -121>>, <<377, 381, 2, 1>>, <<385, 385, 1, 210>>,
     <<386, 388, 2, 1>>, <<390, 390, 1, 206>>, <<391, 391, 1, 1>>,
     <<393, 394, 1, 205>>, <<395, 395, 1, 1>>, <<398, 398, 1, 79>>,
     <<399, 399, 1, 202>>, <<400, 400, 1, 203>>, <<401, 401, 1, 1>>,
     <<403, 403, 1, 205>>, <<404, 404, 1, 207>>, <<406, 406, 1, 211>>,
     <<407, 407, 1, 209>>, <<408, 408, 1, 1>>, <<412, 412, 1, 211>>,
     <<413, 413, 1, 213>>, <<415, 415, 1, 214>>, <<416, 420, 2, 1>>,
     <<422, 422, 1, 218>>, <<423, 423, 1, 1>>, <<425, 425, 1, 218>>,
     <<428, 428, 1, 1>>, <<430, 430, 1, 218>>, <<431, 431, 1, 1>>,
     <<433, 434, 1, 217>>, <<435, 437, 2, 1>>, <<439, 439, 1, 219>>,
     <<440, 440, 1, 1>>, <<444, 444, 1, 1>>, <<452, 452, 1, 2>>,
     <<453, 453, 1, 1>>, <<455, 455, 1, 2>>, <<456, 456, 1, 1>>,
     <<458, 458, 1, 2>>, <<459, 475, 2, 1>>, <<478, 494, 2, 1>>,
     <<497, 497, 1, 2>>, <<498, 500, 2, 1>>, <<502, 502, 1, -97>>,
     <<503, 503, 1, -56>>, <<504, 542, 2, 1>>, <<544, 544, 1, -130>>,
     <<546, 562, 2, 1>>, <<570, 570, 1, 10795>>, <<571, 571, 1, 1>>,
     <<573, 573, 1, -163>>, <<574, 574, 1, 10792>>, <<577, 577, 1, 1>>,
     <<579, 579, 1, -195>>, <<580, 580, 1, 69>>, <<581, 581, 1, 71>>,
     <<582, 590, 2, 1>>, <<880, 882, 2, 1>>, <<886, 886, 1, 1>>,
     <<895, 895, 1, 116>>, <<902, 902, 1, 38>>, <<904, 906, 1, 37>>,
     <<908, 908, 1, 64>>, <<910, 911, 1, 63>>, <<913, 929, 1, 32>>,
     <<931, 939, 1, 32>>, <<975, 975, 1, 8>>, <<984, 1006, 2, 1>>,
     <<1012, 1012, 1, -60>>, <<1015, 1015, 1, 1>>, <<1017, 1017, 1, -7>>,
     <<1018, 1018, 1, 1>>, <<1021, 1023, 1, -130>>, <<1024, 1039, 1, 80>>,
     <<1040, 1071, 1, 32>>, <<1120, 1152, 2, 1>>, <<1162, 1214, 2, 1>>,
     <<1216, 1216, 1, 15>>, <<1217, 1229, 2, 1>>, <<1232, 1326, 2, 1>>,
     <<1329, 1366, 1, 48>>, <<4256, 4293, 1, 7264>>, <<4295, 4295, 1, 7264>>,
     <<4301, 4301, 1, 7264>>, <<5024, 5103, 1, 38864>>, <<5104, 5109, 1, 8>>,
     <<7312, 7354, 1, -3008>>, <<7357, 7359, 1, -3008>>, <<7680, 7828, 2, 1>>,
     <<7838, 7838, 1, -7615>>, <<7840, 7934, 2, 1>>, <<7944, 7951, 1, -8>>,
     <<7960, 7965, 1, -8>>, <<7976, 7983, 1, -8>>, <<7992, 7999, 1, -8>>,
     <<8008, 8013, 1, -8>>, <<8025, 8031, 2, -8>>, <<8040, 8047, 1, -8>>,
     <<8072, 8079, 1, -8>>, <<8088, 8095, 1, -8>>, <<8104, 8111, 1, -8>>,
     <<8120, 8121, 1, -8>>, <<8122, 8123, 1, -74>>, <<8124, 8124, 1, -9>>,
     <<8136, 8139, 1, -86>>, <<8140, 8140, 1, -9>>, <<8152, 8153, 1, -8>>,
     <<8154, 8155, 1, -100>>, <<8168, 8169, 1, -8>>, <<8170, 8171, 1, -112>>,
     <<8172, 8172, 1, -7>>, <<8184, 8185, 1, -128>>, <<8186, 8187, 1, -126>>,
     <<8188, 8188, 1, -9>>, <<8486, 8486, 1, -7517>>, <<8491, 8491, 1, -8262>>,
     <<8498, 8498, 1, 28>>, <<8544, 8559, 1, 16>>, <<8579, 8579, 1, 1>>,
     <<9398, 9423, 1, 26>>, <<11264, 11311, 1, 48>>, <<11360, 11360, 1, 1>>,
     <<11362, 11362, 1, -10743>>, <<11363, 11363, 1, -3814>>,
     <<11364, 11364, 1, -10727>>, <<11367, 11371, 2, 1>>,
     <<11373, 11373, 1, -10780>>, <<11374, 11374, 1, -10749>>,
     <<11375, 11375, 1, -10783>>, <<11376, 11376, 1, -10782>>,
     <<11378, 11378, 1, 1>>, <<11381, 11381, 1, 1>>,
     <<11390, 11391, 1, -10815>>, <<11392, 11490, 2, 1>>,
     <<11499, 11501, 2, 1>>, <<11506, 11506, 1, 1>>, <<42560, 42604, 2, 1>>,
     <<42624, 42650, 2, 1>>, <<42786, 42798, 2, 1>>, <<42802, 42862, 2, 1>>,
     <<42873, 42875, 2, 1>>, <<42877, 42877, 1, -35332>>,
     <<42878, 42886, 2, 1>>, <<42891, 42891, 1, 1>>,
     <<42893, 42893, 1, -42280>>, <<42896, 42898, 2, 1>>,
     <<42902, 42920, 2, 1>>, <<42922, 42922, 1, -42308>>,
     <<42923, 42923, 1, -42319>>, <<42924, 42924, 1, -42315>>,
     <<42925, 42925, 1, -42305>>, <<42926, 42926, 1, -42308>>,
     <<42928, 42928, 1, -42258>>, <<42929, 42929, 1, -42282>>,
     <<42930, 42930, 1, -42261>>, <<42931, 42931, 1, 928>>,
     <<42932, 42946, 2, 1>>, <<42948, 42948, 1, -48>>,
     <<42949, 42949, 1, -42307>>, <<42950, 42950, 1, -35384>>,
     <<42951, 42953, 2, 1>>, <<42960, 42960, 1, 1>>, <<42966, 42968, 2, 1>>,
     <<42997, 42997, 1, 1>>, <<65313, 65338, 1, 32>>, <<66560, 66599, 1, 40>>,
     <<66736, 66771, 1, 40>>, <<66928, 66938, 1, 39>>, <<66940, 66954, 1, 39>>,
     <<66956, 66962, 1, 39>>, <<66964, 66965, 1, 39>>, <<68736, 68786, 1, 64>>,
     <<71840, 71871, 1, 32>>, <<93760, 93791, 1, 32>>,
     <<125184, 125217, 1, 34>>}

\* The ranges <<first, last>> of the cased code points beyond ASCII that are
\* not case-ignorable.
CasedRanges ==
    {<<170, 170>>, <<181, 181>>, <<186, 186>>, <<192, 214>>, <<216, 246>>,
     <<248, 442>>, <<444, 447>>, <<452, 659>>, <<661, 687>>, <<880, 883>>,
     <<886, 887>>, <<891, 893>>, <<895, 895>>, <<902, 902>>, <<904, 906>>,
     <<908, 908>>, <<910, 929>>, <<931, 1013>>, <<1015, 1153>>, <<1162, 1327>>,
     <<1329, 1366>>, <<1376, 1416>>, <<4256, 4293>>, <<4295, 4295>>,
     <<4301, 4301>>, <<4304, 4346>>, <<4349, 4351>>, <<5024, 5109>>,
     <<5112, 5117>>, <<7296, 7304>>, <<7312, 7354>>, <<7357, 7359>>,
     <<7424, 7467>>, <<7531, 7543>>, <<7545, 7578>>, <<7680, 7957>>,
     <<7960, 7965>>, <<7968, 8005>>, <<8008, 8013>>, <<8016, 8023>>,
     <<8025, 8025>>, <<8027, 8027>>, <<8029, 8029>>, <<8031, 8061>>,
     <<8064, 8116>>, <<8118, 8124>>, <<8126, 8126>>, <<8130, 8132>>,
     <<8134, 8140>>, <<8144, 8147>>, <<8150, 8155>>, <<8160, 8172>>,
     <<8178, 8180>>, <<8182, 8188>>, <<8450, 8450>>, <<8455, 8455>>,
     <<8458, 8467>>, <<8469, 8469>>, <<8473, 8477>>, <<8484, 8484>>,
     <<8486, 8486>>, <<8488, 8488>>, <<8490, 8493>>, <<8495, 8500>>,
     <<8505, 8505>>, <<8508, 8511>>, <<8517, 8521>>, <<8526, 8526>>,
     <<8544, 8575>>, <<8579, 8580>>, <<9398, 9449>>, <<11264, 11387>>,
     <<11390, 11492>>, <<11499, 11502>>, <<11506, 11507>>, <<11520, 11557>>,
     <<11559, 11559>>, <<11565, 11565>>, <<42560, 42605>>, <<42624, 42651>>,
     <<42786, 42863>>, <<42865, 42887>>, <<42891, 42894>>, <<42896, 42954>>,
     <<42960, 42961>>, <<42963, 42963>>, <<42965, 42969>>, <<42997, 42998>>,
     <<43002, 43002>>, <<43824, 43866>>, <<43872, 43880>>, <<43888, 43967>>,
     <<64256, 64262>>, <<64275, 64279>>, <<65313, 65338>>, <<65345, 65370>>,
     <<66560, 66639>>, <<66736, 66771>>, <<66776, 66811>>, <<66928, 66938>>,
     <<66940, 66954>>, <<66956, 66962>>, <<66964, 66965>>, <<66967, 66977>>,
     <<66979, 66993>>, <<66995, 67001>>, <<67003, 67004>>, <<68736, 68786>>,
     <<68800, 68850>>, <<71840, 71903>>, <<93760, 93823>>, <<119808, 119892>>,
     <<119894, 119964>>, <<119966, 119967>>, <<119970, 119970>>,
     <<119973, 119974>>, <<119977, 119980>>, <<119982, 119993>>,
     <<119995, 119995>>, <<119997, 120003>>, <<120005, 120069>>,
     <<120071, 120074>>, <<120077, 120084>>, <<120086, 120092>>,
     <<120094, 120121>>, <<120123, 120126>>, <<120128, 120132>>,
     <<120134, 120134>>, <<120138, 120144>>, <<120146, 120485>>,
     <<120488, 120512>>, <<120514, 120538>>, <<120540, 120570>>,
     <<120572, 120596>>, <<120598, 120628>>, <<120630, 120654>>,
     <<120656, 120686>>, <<120688, 120712>>, <<120714, 120744>>,
     <<120746, 120770>>, <<120772, 120779>>, <<122624, 122633>>,
     <<122635, 122654>>, <<125184, 125251>>, <<127280, 127305>>,
     <<127312, 127337>>, <<127344, 127369>>}

\* The ranges <<first, last>> of the case-ignorable code points beyond ASCII.
CaseIgnorableRanges ==
    {<<168, 168>>, <<173, 173>>, <<175, 175>>, <<180, 180>>, <<183, 184>>,
     <<688, 879>>, <<884, 885>>, <<890, 890>>, <<900, 901>>, <<903, 903>>,
     <<1155, 1161>>, <<1369, 1369>>, <<1375, 1375>>, <<1425, 1469>>,
     <<1471, 1471>>, <<1473, 1474>>, <<1476, 1477>>, <<1479, 1479>>,
     <<1524, 1524>>, <<1536, 1541>>, <<1552, 1562>>, <<1564, 1564>>,
     <<1600, 1600>>, <<1611, 1631>>, <<1648, 1648>>, <<1750, 1757>>,
     <<1759, 1768>>, <<1770, 1773>>, <<1807, 1807>>, <<1809, 1809>>,
     <<1840, 1866>>, <<1958, 1968>>, <<2027, 2037>>, <<2042, 2042>>,
     <<2045, 2045>>, <<2070, 2093>>, <<2137, 2139>>, <<2184, 2184>>,
     <<2192, 2193>>, <<2200, 2207>>, <<2249, 2306>>, <<2362, 2362>>,
     <<2364, 2364>>, <<2369, 2376>>, <<2381, 2381>>, <<2385, 2391>>,
     <<2402, 2403>>, <<2417, 2417>>, <<2433, 2433>>, <<2492, 2492>>,
     <<2497, 2500>>, <<2509, 2509>>, <<2530, 2531>>, <<2558, 2558>>,
     <<2561, 2562>>, <<2620, 2620>>, <<2625, 2626>>, <<2631, 2632>>,
     <<2635, 2637>>, <<2641, 2641>>, <<2672, 2673>>, <<2677, 2677>>,
     <<2689, 2690>>, <<2748, 2748>>, <<2753, 2757>>, <<2759, 2760>>,
     <<2765, 2765>>, <<2786, 2787>>, <<2810, 2815>>, <<2817, 2817>>,
     <<2876, 2876>>, <<2879, 2879>>, <<2881, 2884>>, <<2893, 2893>>,
     <<2901, 2902>>, <<2914, 2915>>, <<2946, 2946>>, <<3008, 3008>>,
     <<3021, 3021>>, <<3072, 3072>>, <<3076, 3076>>, <<3132, 3132>>,
     <<3134, 3136>>, <<3142, 3144>>, <<3146, 3149>>, <<3157, 3158>>,
     <<3170, 3171>>, <<3201, 3201>>, <<3260, 3260>>, <<3263, 3263>>,
     <<3270, 3270>>, <<3276, 3277>>, <<3298, 3299>>, <<3328, 3329>>,
     <<3387, 3388>>, <<3393, 3396>>, <<3405, 3405>>, <<3426, 3427>>,
     <<3457, 3457>>, <<3530, 3530>>, <<3538, 3540>>, <<3542, 3542>>,
     <<3633, 3633>>, <<3636, 3642>>, <<3654, 3662>>, <<3761, 3761>>,
     <<3764, 3772>>, <<3782, 3782>>, <<3784, 3789>>, <<3864, 3865>>,
     <<3893, 3893>>, <<3895, 3895>>, <<3897, 3897>>, <<3953, 3966>>,
     <<3968, 3972>>, <<3974, 3975>>, <<3981, 3991>>, <<3993, 4028>>,
     <<4038, 4038>>, <<4141, 4144>>, <<4146, 4151>>, <<4153, 4154>>,
     <<4157, 4158>>, <<4184, 4185>>, <<4190, 4192>>, <<4209, 4212>>,
     <<4226, 4226>>, <<4229, 4230>>, <<4237, 4237>>, <<4253, 4253>>,
     <<4348, 4348>>, <<4957, 4959>>, <<5906, 5908>>, <<5938, 5939>>,
     <<5970, 5971>>, <<6002, 6003>>, <<6068, 6069>>, <<6071, 6077>>,
     <<6086, 6086>>, <<6089, 6099>>, <<6103, 6103>>, <<6109, 6109>>,
     <<6155, 6159>>, <<6211, 6211>>, <<6277, 6278>>, <<6313, 6313>>,
     <<6432, 6434>>, <<6439, 6440>>, <<6450, 6450>>, <<6457, 6459>>,
     <<6679, 6680>>, <<6683, 6683>>, <<6742, 6742>>, <<6744, 6750>>,
     <<6752, 6752>>, <<6754, 6754>>, <<6757, 6764>>, <<6771, 6780>>,
     <<6783, 6783>>, <<6823, 6823>>, <<6832, 6862>>, <<6912, 6915>>,
     <<6964, 6964>>, <<6966, 6970>>, <<6972, 6972>>, <<6978, 6978>>,
     <<7019, 7027>>, <<7040, 7041>>, <<7074, 7077>>, <<7080, 7081>>,
     <<7083, 7085>>, <<7142, 7142>>, <<7144, 7145>>, <<7149, 7149>>,
     <<7151, 7153>>, <<7212, 7219>>, <<7222, 7223>>, <<7288, 7293>>,
     <<7376, 7378>>, <<7380, 7392>>, <<7394, 7400>>, <<7405, 7405>>,
     <<7412, 7412>>, <<7416, 7417>>, <<7468, 7530>>, <<7544, 7544>>,
     <<7579, 7679>>, <<8125, 8125>>, <<8127, 8129>>, <<8141, 8143>>,
     <<8157, 8159>>, <<8173, 8175>>, <<8189, 8190>>, <<8203, 8207>>,
     <<8216, 8217>>, <<8228, 8228>>, <<8231, 8231>>, <<8234, 8238>>,
     <<8288, 8292>>, <<8294, 8303>>, <<8305, 8305>>, <<8319, 8319>>,
     <<8336, 8348>>, <<8400, 8432>>, <<11388, 11389>>, <<11503, 11505>>,
     <<11631, 11631>>, <<11647, 11647>>, <<11744, 11775>>, <<11823, 11823>>,
     <<12293, 12293>>, <<12330, 12333>>, <<12337, 12341>>, <<12347, 12347>>,
     <<12441, 12446>>, <<12540, 12542>>, <<40981, 40981>>, <<42232, 42237>>,
     <<42508, 42508>>, <<42607, 42610>>, <<42612, 42621>>, <<42623, 42623>>,
     <<42652, 42655>>, <<42736, 42737>>, <<42752, 42785>>, <<42864, 42864>>,
     <<42888, 42890>>, <<42994, 42996>>, <<43000, 43001>>, <<43010, 43010>>,
     <<43014, 43014>>, <<43019, 43019>>, <<43045, 43046>>, <<43052, 43052>>,
     <<43204, 43205>>, <<43232, 43249>>, <<43263, 43263>>, <<43302, 43309>>,
     <<43335, 43345>>, <<43392, 43394>>, <<43443, 43443>>, <<43446, 43449>>,
     <<43452, 43453>>, <<43471, 43471>>, <<43493, 43494>>, <<43561, 43566>>,
     <<43569, 43570>>, <<43573, 43574>>, <<43587, 43587>>, <<43596, 43596>>,
     <<43632, 43632>>, <<43644, 43644>>, <<43696, 43696>>, <<43698, 43700>>,
     <<43703, 43704>>, <<43710, 43711>>, <<43713, 43713>>, <<43741, 43741>>,
     <<43756, 43757>>, <<43763, 43764>>, <<43766, 43766>>, <<43867, 43871>>,
     <<43881, 43883>>, <<44005, 44005>>, <<44008, 44008>>, <<44013, 44013>>,
     <<64286, 64286>>, <<64434, 64450>>, <<65024, 65039>>, <<65043, 65043>>,
     <<65056, 65071>>, <<65106, 65106>>, <<65109, 65109>>, <<65279, 65279>>,
     <<65287, 65287>>, <<65294, 65294>>, <<65306, 65306>>, <<65342, 65342>>,
     <<65344, 65344>>, <<65392, 65392>>, <<65438, 65439>>, <<65507, 65507>>,
     <<65529, 65531>>, <<66045, 66045>>, <<66272, 66272>>, <<66422, 66426>>,
     <<67456, 67461>>, <<67463, 67504>>, <<67506, 67514>>, <<68097, 68099>>,
     <<68101, 68102>>, <<68108, 68111>>, <<68152, 68154>>, <<68159, 68159>>,
     <<68325, 68326>>, <<68900, 68903>>, <<69291, 69292>>, <<69446, 69456>>,
     <<69506, 69509>>, <<69633, 69633>>, <<69688, 69702>>, <<69744, 69744>>,
     <<69747, 69748>>, <<69759, 69761>>, <<69811, 69814>>, <<69817, 69818>>,
     <<69821, 69821>>, <<69826, 69826>>, <<69837, 69837>>, <<69888, 69890>>,
     <<69927, 69931>>, <<69933, 69940>>, <<70003, 70003>>, <<70016, 70017>>,
     <<70070, 70078>>, <<70089, 70092>>, <<70095, 70095>>, <<70191, 70193>>,
     <<70196, 70196>>, <<70198, 70199>>, <<70206, 70206>>, <<70367, 70367>>,
     <<70371, 70378>>, <<70400, 70401>>, <<70459, 70460>>, <<70464, 70464>>,
     <<70502, 70508>>, <<70512, 70516>>, <<70712, 70719>>, <<70722, 70724>>,
     <<70726, 70726>>, <<70750, 70750>>, <<70835, 70840>>, <<70842, 70842>>,
     <<70847, 70848>>, <<70850, 70851>>, <<71090, 71093>>, <<71100, 71101>>,
     <<71103, 71104>>, <<71132, 71133>>, <<71219, 71226>>, <<71229, 71229>>,
     <<71231, 71232>>, <<71339, 71339>>, <<71341, 71341>>, <<71344, 71349>>,
     <<71351, 71351>>, <<71453, 71455>>, <<71458, 71461>>, <<71463, 71467>>,
     <<71727, 71735>>, <<71737, 71738>>, <<71995, 71996>>, <<71998, 71998>>,
     <<72003, 72003>>, <<72148, 72151>>, <<72154, 72155>>, <<72160, 72160>>,
     <<72193, 72202>>, <<72243, 72248>>, <<72251, 72254>>, <<72263, 72263>>,
     <<72273, 72278>>, <<72281, 72283>>, <<72330, 72342>>, <<72344, 72345>>,
     <<72752, 72758>>, <<72760, 72765>>, <<72767, 72767>>, <<72850, 72871>>,
     <<72874, 72880>>, <<72882, 72883>>, <<72885, 72886>>, <<73009, 73014>>,
     <<73018, 73018>>, <<73020, 73021>>, <<73023, 73029>>, <<73031, 73031>>,
     <<73104, 73105>>, <<73109, 73109>>, <<73111, 73111>>, <<73459, 73460>>,
     <<78896, 78904>>, <<92912, 92916>>, <<92976, 92982>>, <<92992, 92995>>,
     <<94031, 94031>>, <<94095, 94111>>, <<94176, 94177>>, <<94179, 94180>>,
     <<110576, 110579>>, <<110581, 110587>>, <<110589, 110590>>,
     <<113821, 113822>>, <<113824, 113827>>, <<118528, 118573>>,
     <<118576, 118598>>, <<119143, 119145>>, <<119155, 119170>>,
     <<119173, 119179>>, <<119210, 119213>>, <<119362, 119364>>,
     <<121344, 121398>>, <<121403, 121452>>, <<121461, 121461>>,
     <<121476, 121476>>, <<121499, 121503>>, <<121505, 121519>>,
     <<122880, 122886>>, <<122888, 122904>>, <<122907, 122913>>,
     <<122915, 122916>>, <<122918, 122922>>, <<123184, 123197>>,
     <<123566, 123566>>, <<123628, 123631>>, <<125136, 125142>>,
     <<125252, 125259>>, <<127995, 127999>>, <<917505, 917505>>,
     <<917536, 917631>>, <<917760, 917999>>}

\* The code points first, first + step, ..., last of a row of LowerRanges.
Stepped(r) == {cp \in r[1]..r[2] : (cp - r[1]) % r[3] = 0}

\* The characters beyond ASCII that str.lower() changes, each with the string
\* it becomes: one character, but for chr(304), which becomes two.
LowerPairs ==
    UNION {{<<Chr(cp), <<Chr(cp + r[4])>>>> : cp \in Stepped(r)} : r \in LowerRanges}
        \cup {<<Chr(304), <<"i", Chr(775)>>>>, <<Chr(8490), <<"k">>>>}

Lowered == {p[1] : p \in LowerPairs}

AsciiLetters ==
    {"A", "B", "C", "D", "E", "F", "G", "H", "I", "J", "K", "L", "M", "N", "O",
     "P", "Q", "R", "S", "T", "U", "V", "W", "X", "Y", "Z",
     "a", "b", "c", "d", "e", "f", "g", "h", "i", "j", "k", "l", "m", "n", "o",
     "p", "q", "r", "s", "t", "u", "v", "w", "x", "y", "z"}

\* The cased characters that are not case-ignorable.
Cased ==
    AsciiLetters \cup UNION {{Chr(cp) : cp \in r[1]..r[2]} : r \in CasedRanges}

\* The case-ignorable characters.
CaseIgnorable ==
    {"'", ".", ":", "^", Chr(96)}
        \cup UNION {{Chr(cp) : cp \in r[1]..r[2]} : r \in CaseIgnorableRanges}

\* str.lower() on a string of one character.
LowerChar(c) ==
    IF c \in Lowered THEN (CHOOSE p \in LowerPairs : p[1] = c)[2]
    ELSE <<AsciiLowerChar(c)>>

\* The capital sigma, chr(931), lowers to the final sigma chr(962) after a
\* cased character and before none, case-ignorable characters skipped, and
\* to chr(963) elsewhere.
RECURSIVE LastBefore(_, _)
LastBefore(s, j) ==
    IF j >= 1 /\ s[j] \in CaseIgnorable THEN LastBefore(s, j - 1) ELSE j

RECURSIVE FirstAfter(_, _)
FirstAfter(s, j) ==
    IF j <= Len(s) /\ s[j] \in CaseIgnorable THEN FirstAfter(s, j + 1) ELSE j

CasedAt(s, j) == j >= 1 /\ j <= Len(s) /\ s[j] \in Cased

FinalSigma(s, i) ==
    CasedAt(s, LastBefore(s, i - 1)) /\ ~CasedAt(s, FirstAfter(s, i + 1))

LowerAt(s, i) ==
    IF s[i] = Chr(931) /\ FinalSigma(s, i) THEN <<Chr(962)>> ELSE LowerChar(s[i])

RECURSIVE LowerRange(_, _, _)
LowerSplit(s, lo, mid, hi) == LowerRange(s, lo, mid) \o LowerRange(s, mid + 1, hi)
LowerRange(s, lo, hi) ==
    IF lo > hi THEN <<>>
    ELSE IF lo = hi THEN LowerAt(s, lo)
    ELSE LowerSplit(s, lo, (lo + hi) \div 2, hi)

\* str.lower()
Lower(s) == LowerRange(s, 1, Len(s))

\* s without its leading characters of the set ws
RECURSIVE LStripOf(_, _)
LStripOf(s, ws) ==
    IF s # <<>> /\ Head(s) \in ws THEN LStripOf(Tail(s), ws) ELSE s

\* s without its trailing characters of the set ws
RECURSIVE RStripOf(_, _)
RStripOf(s, ws) ==
    IF s # <<>> /\ s[Len(s)] \in ws
    THEN RStripOf(SubSeq(s, 1, Len(s) - 1), ws)
    ELSE s

\* str.lstrip(), str.rstrip()
LStrip(s) == LStripOf(s, Whitespace)
RStrip(s) == RStripOf(s, Whitespace)

\* str.strip()
Strip(s) == RStrip(LStrip(s))

\* The text float() parses: the argument without the whitespace around it.
FloatStrip(s) == RStripOf(LStripOf(s, FloatWhitespace), FloatWhitespace)

\* c in s
Contains(s, c) == \E i \in 1..Len(s) : s[i] = c

\* s.replace(a, b) for one-character a and b
Replace(s, a, b) == [i \in 1..Len(s) |-> IF s[i] = a THEN b ELSE s[i]]

\* The index of the first c in s (c occurs in s).
IndexOf(s, c) == CHOOSE i \in 1..Len(s) : s[i] = c /\ \A j \in 1..(i - 1) : s[j] # c

\* s.split(sep)[0] when sep occurs in s
SplitFirst(s, sep) == SubSeq(s, 1, IndexOf(s, sep) - 1)

(***************************************************************************)
(* float(str), as CPython parses it                                        *)
(***************************************************************************)
\* digit (["_"] digit)*
ValidDigitPart(p) ==
    /\ Len(p) >= 1
    /\ \A i \in 1..Len(p) : p[i] \in Digits \cup {"_"}
    /\ p[1] \in Digits
    /\ p[Len(p)] \in Digits
    /\ \A i \in 1..(Len(p) - 1) : ~(p[i] = "_" /\ p[i + 1] = "_")

NotUnderscore(c) == c # "_"

\* The natural the digits lo..hi of d spell: that of the upper half, and
\* that of the lower half as many places up.
RECURSIVE DigitsRange(_, _, _)
DigitsSplit(d, lo, hi, mid) ==
    AddB(MulB(DigitsRange(d, lo, mid), Pow10(hi - mid)),
         DigitsRange(d, mid + 1, hi))
DigitsRange(d, lo, hi) ==
    IF lo > hi THEN <<>>
    ELSE IF lo = hi THEN FromNat(DigitVal(d[lo]))
    ELSE DigitsSplit(d, lo, hi, (lo + hi) \div 2)

\* The natural a digit part spells, its underscores left out.
DigitsOf(d) == DigitsRange(d, 1, Len(d))
DigitsValue(p) == DigitsOf(SelectSeq(p, NotUnderscore))

RECURSIVE DigitCount(_)
DigitCount(p) ==
    IF p = <<>> THEN 0
    ELSE DigitCount(Tail(p)) + (IF Head(p) = "_" THEN 0 ELSE 1)

\* A digit part without its leading zeros.
RECURSIVE DropZeros(_)
DropZeros(p) ==
    IF p # <<>> /\ (Head(p) = "_" \/ DigitVal(Head(p)) = 0)
    THEN DropZeros(Tail(p))
    ELSE p

RECURSIVE IntValue(_, _)
IntValue(p, acc) ==
    IF p = <<>> THEN acc
    ELSE IF Head(p) = "_" THEN IntValue(Tail(p), acc)
    ELSE IntValue(Tail(p), 10 * acc + DigitVal(Head(p)))

\* The exponent a digit part spells, as float() reads it: 1100000000 when
\* more than nine digits follow the leading zeros.
ExpValue(p) ==
    IF DigitCount(DropZeros(p)) > 9 THEN 1100000000
    ELSE IntValue(DropZeros(p), 0)

HasSign(s) == s # <<>> /\ Head(s) \in {"+", "-"}
Unsigned(s) == IF HasSign(s) THEN Tail(s) ELSE s
SignOf(s) == IF s # <<>> /\ Head(s) = "-" THEN -1 ELSE 1

\* The mantissa with integer digits ip and fraction digits fp, at least
\* one of them present: <<ok, n, f, c>>, the value being n / 10^f, n the
\* natural that the c digits of ip and the f digits of fp spell.
MantissaParts(ip, fp) ==
    IF /\ (ip = <<>> \/ ValidDigitPart(ip))
       /\ (fp = <<>> \/ ValidDigitPart(fp))
       /\ ~(ip = <<>> /\ fp = <<>>)
    THEN <<TRUE, DigitsValue(ip \o fp), DigitCount(fp),
           DigitCount(ip) + DigitCount(fp)>>
    ELSE <<FALSE, <<>>, 0, 0>>

\* [digits] ["." [digits]]
Mantissa(m) ==
    IF Contains(m, ".")
    THEN MantissaParts(SubSeq(m, 1, IndexOf(m, ".") - 1),
                       SubSeq(m, IndexOf(m, ".") + 1, Len(m)))
    ELSE MantissaParts(m, <<>>)

\* sign * mantissa * 10^ev, correctly rounded.  A value of 10^310 or more
\* is beyond the largest double and gives inf; one below 10^-330 is below
\* half the smallest and gives 0.0.
Decimal(sg, m, ev) ==
    IF ~m[1] THEN None
    ELSE IF m[2] = <<>> THEN Zero(sg)
    ELSE IF ev - m[3] >= 310 THEN Inf(sg)
    ELSE IF ev - m[3] + m[4] <= -330 THEN Zero(sg)
    ELSE IF ev >= m[3] THEN Round(sg, MulB(m[2], Pow10(ev - m[3])), FALSE, 0)
    ELSE RoundRatio(sg, m[2], Pow10(m[3] - ev), 0)

\* mantissa "e" [sign] digits
Scientific(sg, mant, expo) ==
    IF ~ValidDigitPart(Unsigned(expo)) THEN None
    ELSE Decimal(sg, Mantissa(mant), SignOf(expo) * ExpValue(Unsigned(expo)))

\* The float that the text after the sign spells, in lower case.
FloatBody(sg, body) ==
    IF body \in {<<"i", "n", "f">>, <<"i", "n", "f", "i", "n", "i", "t", "y">>}
    THEN (IF sg > 0 THEN PosInf ELSE NegInf)
    ELSE IF body = <<"n", "a", "n">> THEN NaN
    ELSE IF Contains(body, "e")
         THEN Scientific(sg, SubSeq(body, 1, IndexOf(body, "e") - 1),
                         SubSeq(body, IndexOf(body, "e") + 1, Len(body)))
    ELSE Decimal(sg, Mantissa(body), 0)

\* float(s): the float, or None where Python raises ValueError.
PyFloat(s) ==
    FloatBody(SignOf(FloatStrip(s)), AsciiLower(Unsigned(FloatStrip(s))))

(***************************************************************************)
(* parse_float                                                             *)
(***************************************************************************)
\* if "," in cleaned and "." not in cleaned: cleaned = cleaned.replace(",", ".")
DecimalComma(cleaned) ==
    IF Contains(cleaned, ",") /\ ~Contains(cleaned, ".")
    THEN Replace(cleaned, ",", ".")
    ELSE cleaned

\* for separator in (";", "|"): if separator in cleaned: split, break
FirstSegment(cleaned) ==
    IF Contains(cleaned, ";") THEN SplitFirst(cleaned, ";")
    ELSE IF Contains(cleaned, "|") THEN SplitFirst(cleaned, "|")
    ELSE cleaned

\* if cleaned.endswith("m"): cleaned = cleaned[:-1]
StripUnit(cleaned) ==
    IF cleaned # <<>> /\ cleaned[Len(cleaned)] = "m"
    THEN SubSeq(cleaned, 1, Len(cleaned) - 1)
    ELSE cleaned

\* parse_float from "if not cleaned" on, cleaned = value.strip().lower()
ParseCleaned(cleaned) ==
    IF cleaned = <<>> THEN None
    ELSE PyFloat(StripUnit(FirstSegment(DecimalComma(cleaned))))

parse_float(value) == ParseCleaned(Lower(Strip(value)))

(***************************************************************************)
(* building_height                                                         *)
(***************************************************************************)
DEFAULT_LEVEL_HEIGHT == 3
DEFAULT_BUILDING_HEIGHT == 10

\* One of the two "for key in (...)" loops: the first value, in key order,
\* whose key is in tags and whose value parses; None when the loop ends
\* without a break.
RECURSIVE FirstParsed(_, _)
RECURSIVE ParsedOrNext(_, _, _)
FirstParsed(t, keys) ==
    IF keys = <<>> THEN None
    ELSE IF Head(keys) \in DOMAIN t
         THEN ParsedOrNext(parse_float(t[Head(keys)]), t, Tail(keys))
         ELSE FirstParsed(t, Tail(keys))

\* if value is not None: ... break
ParsedOrNext(value, t, keys) ==
    IF value # None THEN value ELSE FirstParsed(t, keys)

MinHeightKeys == <<"min_height", "building:min_height">>
HeightKeys == <<"height", "building:height">>

\* if levels is not None: height = levels * level_height
LevelsHeight(levels, lh) == IF levels # None THEN FMul(levels, lh) ELSE None

\* if height is None and "building:levels" in tags: ...
WithLevels(height, t, lh) ==
    IF height = None /\ "building:levels" \in DOMAIN t
    THEN LevelsHeight(parse_float(t["building:levels"]), lh)
    ELSE height

\* if x is None: x = fallback
OrElse(x, fallback) == IF x = None THEN fallback ELSE x

\* DegenerateFix with "<" in place of "<=".
DegenerateFixStrict(height, min_height, dh) ==
    IF FLt(height, min_height)
    THEN FAdd(min_height, FMax(FMul(dh, Fin(1, 4)), Fin(1, 1)))
    ELSE height

\* if height <= min_height: height = min_height + max(default_height * 0.25, 1.0)
DegenerateFix(height, min_height, dh) ==
    IF FLe(height, min_height)
    THEN FAdd(min_height, FMax(FMul(dh, Fin(1, 4)), Fin(1, 1)))
    ELSE height

\* return height, min_height
HeightPair(height, min_height, dh) ==
    <<DegenerateFix(height, min_height, dh), min_height>>

\* The pair (height, min_height) building_height returns.
building_height(t, dh, lh) ==
    HeightPair(OrElse(WithLevels(FirstParsed(t, HeightKeys), t, lh), dh),
               OrElse(FirstParsed(t, MinHeightKeys), Fin(0, 1)),
               dh)

(***************************************************************************)
(* assemble_rings                                                          *)
(***************************************************************************)
Reverse(s) == [i \in 1..Len(s) |-> s[Len(s) + 1 - i]]

\* list.pop(index) that removes nothing.
RemoveAtNothing(s, i) == s

\* list.pop(index), the list that is left (index counts from 1 here)
RemoveAt(s, i) == SubSeq(s, 1, i - 1) \o SubSeq(s, i + 1, Len(s))

\* [list(seq) for seq in node_sequences if len(seq) >= 2]
Fragments(seqs) == SelectSeq(seqs, LAMBDA q : Len(q) >= 2)

IsOpen(r) == r[1] # r[Len(r)]

\* One of the four tests of the for loop succeeds on candidate c.
Joins(r, c) ==
    /\ c # <<>>
    /\ \/ c[1] = r[Len(r)]
       \/ c[Len(c)] = r[Len(r)]
       \/ c[Len(c)] = r[1]
       \/ c[1] = r[1]

\* The index of the candidate the for loop joins: the first one, in the
\* pool's order, that one of the four tests accepts; 0 when the loop ends
\* with joined = False.
JoinIndex(r, pool) ==
    IF \E i \in 1..Len(pool) : Joins(r, pool[i])
    THEN CHOOSE i \in 1..Len(pool) :
             /\ Joins(r, pool[i])
             /\ \A j \in 1..(i - 1) : ~Joins(r, pool[j])
    ELSE 0

\* Join whose second case extends the ring without reversing the candidate.
JoinUnreversed(r, c) ==
    IF c[1] = r[Len(r)] THEN r \o Tail(c)
    ELSE IF c[Len(c)] = r[Len(r)] THEN r \o SubSeq(c, 1, Len(c) - 1)
    ELSE IF c[Len(c)] = r[1] THEN SubSeq(c, 1, Len(c) - 1) \o r
    ELSE Reverse(Tail(c)) \o r

\* Join whose fourth case puts the candidate before the ring unreversed.
JoinHeadUnreversed(r, c) ==
    IF c[1] = r[Len(r)] THEN r \o Tail(c)
    ELSE IF c[Len(c)] = r[Len(r)] THEN r \o Reverse(SubSeq(c, 1, Len(c) - 1))
    ELSE IF c[Len(c)] = r[1] THEN SubSeq(c, 1, Len(c) - 1) \o r
    ELSE Tail(c) \o r

\* The ring after joining candidate c: the four cases, tested in this order.
Join(r, c) ==
    IF c[1] = r[Len(r)] THEN r \o Tail(c)
    ELSE IF c[Len(c)] = r[Len(r)] THEN r \o Reverse(SubSeq(c, 1, Len(c) - 1))
    ELSE IF c[Len(c)] = r[1] THEN SubSeq(c, 1, Len(c) - 1) \o r
    ELSE Reverse(Tail(c)) \o r

\* ForceClose that repeats the first id whether or not the ring is closed.
ForceCloseAlways(r) == Append(r, r[1])

\* ForceClose that leaves an open ring open.
ForceCloseSkipped(r) == r

\* if ring[0] != ring[-1]: ring.append(ring[0])
ForceClose(r) == IF IsOpen(r) THEN Append(r, r[1]) ELSE r

\* The inner while loop: <<ring, unused>> when it is left.
RECURSIVE StitchLoop(_, _)
StitchLoop(r, pool) ==
    IF IsOpen(r) /\ pool # <<>> /\ JoinIndex(r, pool) # 0
    THEN StitchLoop(Join(r, pool[JoinIndex(r, pool)]),
                    RemoveAt(pool, JoinIndex(r, pool)))
    ELSE <<r, pool>>

\* The outer while loop: the rings when the pool is empty.
RECURSIVE AssembleLoop(_, _)
AssembleLoop(pool, done) ==
    IF pool = <<>> THEN done
    ELSE LET current == pool[Len(pool)]
             rest == SubSeq(pool, 1, Len(pool) - 1)
             st == StitchLoop(current, rest)
         IN  IF current = <<>> THEN AssembleLoop(rest, done)
             ELSE AssembleLoop(st[2], Append(done, ForceClose(st[1])))

\* assemble_rings(node_sequences), the returned list of rings
assemble_rings(seqs) == AssembleLoop(Fragments(seqs), <<>>)

(***************************************************************************)
(* Features                                                                *)
(***************************************************************************)
\* is_building(tags)
is_building(t) == "building" \in DOMAIN t \/ "building:part" \in DOMAIN t

\* Feature(osm_id=f"{kind}/{id}", outer=..., holes=..., tags=...)
Feature(kind, id, outer, holes, t) ==
    [osm_id |-> <<kind, id>>, outer |-> outer, holes |-> holes, tags |-> t]

\* [nodes[nid] for nid in ids] raises no KeyError
Resolvable(nd, ids) == \A i \in 1..Len(ids) : ids[i] \in DOMAIN nd

\* [nodes[nid] for nid in ids]
Coords(nd, ids) == [i \in 1..Len(ids) |-> nd[ids[i]]]

\* extract_way_feature(way_id, nodes, node_refs, tags)
extract_way_feature(way_id, nd, node_refs, t) ==
    IF Len(node_refs) < 4 THEN <<>>
    ELSE IF node_refs[1] # node_refs[Len(node_refs)] THEN <<>>
    ELSE IF ~Resolvable(nd, node_refs) THEN <<>>
    ELSE <<Feature("way", way_id, Coords(nd, node_refs), <<>>, t)>>

(***************************************************************************)
(* extract_relation_features                                               *)
(***************************************************************************)
R_outer == <<"o", "u", "t", "e", "r">>
R_inner == <<"i", "n", "n", "e", "r">>
R_outline == <<"o", "u", "t", "l", "i", "n", "e">>
R_exterior == <<"e", "x", "t", "e", "r", "i", "o", "r">>
R_shell == <<"s", "h", "e", "l", "l">>
R_interior == <<"i", "n", "t", "e", "r", "i", "o", "r">>
R_hole == <<"h", "o", "l", "e">>

\* NormalizeRole that takes every role it does not recognize for "outer".
NormalizeRoleDefaultOuter(role) ==
    LET lowered == Lower(IF role = <<>> THEN R_outer ELSE role)
    IN  IF lowered \in {R_interior, R_hole, R_inner} THEN R_inner ELSE R_outer

\* (role or "outer").lower(), then the two synonym tests
NormalizeRole(role) ==
    LET lowered == Lower(IF role = <<>> THEN R_outer ELSE role)
    IN  IF lowered \in {R_outline, R_exterior, R_shell} THEN R_outer
        ELSE IF lowered \in {R_interior, R_hole} THEN R_inner
        ELSE lowered

\* The characters of the tag keys the inputs use.
Chars(k) ==
    CASE k = "building" -> <<"b", "u", "i", "l", "d", "i", "n", "g">>
      [] k = "building:part" ->
            <<"b", "u", "i", "l", "d", "i", "n", "g", ":", "p", "a", "r", "t">>
      [] k = "building:levels" ->
            <<"b", "u", "i", "l", "d", "i", "n", "g", ":", "l", "e", "v", "e", "l", "s">>
      [] k = "building:height" ->
            <<"b", "u", "i", "l", "d", "i", "n", "g", ":", "h", "e", "i", "g", "h", "t">>
      [] k = "building:min_height" ->
            <<"b", "u", "i", "l", "d", "i", "n", "g", ":", "m", "i", "n", "_",
              "h", "e", "i", "g", "h", "t">>
      [] k = "height" -> <<"h", "e", "i", "g", "h", "t">>
      [] k = "min_height" -> <<"m", "i", "n", "_", "h", "e", "i", "g", "h", "t">>
      [] k = "name" -> <<"n", "a", "m", "e">>
      [] k = "type" -> <<"t", "y", "p", "e">>
      [] k = "roof:height" -> <<"r", "o", "o", "f", ":", "h", "e", "i", "g", "h", "t">>

\* s.startswith(prefix)
StartsWith(s, prefix) ==
    Len(s) >= Len(prefix) /\ SubSeq(s, 1, Len(prefix)) = prefix

\* {k: v for k, v in way_tags.items()
\*  if k.startswith("building") or k in {"height", "min_height"}}
BuildingKeys(way_tags) ==
    LET keep == {k \in DOMAIN way_tags :
                   \/ StartsWith(Chars(k), Chars("building"))
                   \/ k \in {"height", "min_height"}}
    IN  [k \in keep |-> way_tags[k]]

\* dict.update: t, with the items of u written over it
Update(t, u) ==
    [k \in DOMAIN t \cup DOMAIN u |-> IF k \in DOMAIN u THEN u[k] ELSE t[k]]

\* MemberStep that merges the tags of every building-tagged member way.
MemberStepMergingAll(acc, member, wy) ==
    LET member_type == member[1]
        ref == member[2]
        normalized_role == NormalizeRole(member[3])
    IN  IF member_type # "way" THEN acc
        ELSE IF ref \notin DOMAIN wy THEN acc
        ELSE IF normalized_role \notin {R_outer, R_inner} THEN acc
        ELSE LET node_refs == wy[ref].refs
                 way_tags == wy[ref].tags
                 merged == IF is_building(way_tags)
                           THEN Update(acc.tags, BuildingKeys(way_tags))
                           ELSE acc.tags
             IN  IF normalized_role = R_outer
                 THEN [outer |-> Append(acc.outer, node_refs),
                       inner |-> acc.inner, tags |-> merged]
                 ELSE [outer |-> acc.outer,
                       inner |-> Append(acc.inner, node_refs), tags |-> merged]

\* The body of "for member_type, ref, role in members" for one member, on
\* acc = [outer |-> way_roles["outer"], inner |-> way_roles["inner"],
\*        tags |-> outer_tags].
MemberStep(acc, member, wy) ==
    LET member_type == member[1]
        ref == member[2]
        normalized_role == NormalizeRole(member[3])
    IN  IF member_type # "way" THEN acc
        ELSE IF ref \notin DOMAIN wy THEN acc
        ELSE IF normalized_role \notin {R_outer, R_inner} THEN acc
        ELSE LET node_refs == wy[ref].refs
                 way_tags == wy[ref].tags
                 merged == IF ~is_building(acc.tags) /\ is_building(way_tags)
                           THEN Update(acc.tags, BuildingKeys(way_tags))
                           ELSE acc.tags
             IN  IF normalized_role = R_outer
                 THEN [outer |-> Append(acc.outer, node_refs),
                       inner |-> acc.inner, tags |-> merged]
                 ELSE [outer |-> acc.outer,
                       inner |-> Append(acc.inner, node_refs), tags |-> merged]

\* The loop over the members, from way_roles = {"outer": [], "inner": []}
\* and outer_tags = tags.copy().
RECURSIVE MemberLoop(_, _, _)
MemberLoop(acc, members, wy) ==
    IF members = <<>> THEN acc
    ELSE MemberLoop(MemberStep(acc, Head(members), wy), Tail(members), wy)

\* ResolveRings that leaves the absent ids out of a ring and keeps the ring.
RECURSIVE ResolveRingsSkippingIds(_, _)
ResolveRingsSkippingIds(nd, ring_ids) ==
    IF ring_ids = <<>> THEN <<>>
    ELSE <<Coords(nd, SelectSeq(Head(ring_ids), LAMBDA id : id \in DOMAIN nd))>>
         \o ResolveRingsSkippingIds(nd, Tail(ring_ids))

\* The rings of assemble_rings(...) that resolve, as coordinates.
RECURSIVE ResolveRings(_, _)
ResolveRings(nd, ring_ids) ==
    IF ring_ids = <<>> THEN <<>>
    ELSE IF Resolvable(nd, Head(ring_ids))
         THEN <<Coords(nd, Head(ring_ids))>> \o ResolveRings(nd, Tail(ring_ids))
         ELSE ResolveRings(nd, Tail(ring_ids))

RECURSIVE SumCoord(_, _)
SumCoord(r, c) == IF r = <<>> THEN 0 ELSE Head(r)[c] + SumCoord(Tail(r), c)

\* ring_centroid(ring): (lat_sum / count, lon_sum / count)
ring_centroid(r) ==
    IF r = <<>> THEN <<Fin(0, 1), Fin(0, 1)>>
    ELSE <<Fin(SumCoord(r, 1), Len(r)), Fin(SumCoord(r, 2), Len(r))>>

\* The literal 1e-12.
Epsilon == PyFloat(<<"1", "e", "-", "1", "2">>)

\* (x2 - x1) * (py - y1) / ((y2 - y1) or 1e-12) + x1
Crossing(px, py, x1, y1, x2, y2) ==
    FAdd(FDiv(FMul(FSub(x2, x1), FSub(py, y1)), FOr(FSub(y2, y1), Epsilon)), x1)

\* ((y1 > py) != (y2 > py)) and (px < ...)
IntersectsAt(px, py, x1, y1, x2, y2) ==
    /\ FGt(y1, py) # FGt(y2, py)
    /\ FLt(px, Crossing(px, py, x1, y1, x2, y2))

\* "intersects" for the edge (lat1, lon1)-(lat2, lon2) and the point
\* (px, py) = (point[1], point[0]).
Intersects(p1, p2, point) ==
    IntersectsAt(point[2], point[1],
                 Fin(p1[2], 1), Fin(p1[1], 1), Fin(p2[2], 1), Fin(p2[1], 1))

\* ring_contains_point(ring, point): inside is toggled once per
\* intersecting edge of zip(ring, ring[1:]).
ring_contains_point(r, point) ==
    Cardinality({i \in 1..(Len(r) - 1) : Intersects(r[i], r[i + 1], point)}) % 2 = 1

\* AssignLoop that leaves the assigned inner rings in the pool.
RECURSIVE AssignLoopKeeping(_, _, _, _)
AssignLoopKeeping(relation_id, outer_rings, unassigned_inners, outer_tags) ==
    IF outer_rings = <<>> THEN <<>>
    ELSE <<Feature("relation", relation_id, Head(outer_rings),
                   SelectSeq(unassigned_inners,
                       LAMBDA h : ring_contains_point(Head(outer_rings),
                                                      ring_centroid(h))),
                   outer_tags)>>
         \o AssignLoopKeeping(relation_id, Tail(outer_rings), unassigned_inners,
                              outer_tags)

\* The loop "for outer_ring in outer_rings": the features, given the
\* inner rings not yet assigned.
RECURSIVE AssignLoop(_, _, _, _)
AssignLoop(relation_id, outer_rings, unassigned_inners, outer_tags) ==
    IF outer_rings = <<>> THEN <<>>
    ELSE LET outer_ring == Head(outer_rings)
             assigned == SelectSeq(unassigned_inners,
                 LAMBDA h : ring_contains_point(outer_ring, ring_centroid(h)))
             remaining_inners == SelectSeq(unassigned_inners,
                 LAMBDA h : ~ring_contains_point(outer_ring, ring_centroid(h)))
         IN  <<Feature("relation", relation_id, outer_ring, assigned, outer_tags)>>
             \o AssignLoop(relation_id, Tail(outer_rings), remaining_inners,
                           outer_tags)

\* extract_relation_features from "if not outer_rings" on.
FeaturesOfRings(relation_id, nd, outer_rings, acc) ==
    IF outer_rings = <<>> THEN <<>>
    ELSE AssignLoop(relation_id, outer_rings,
                    ResolveRings(nd, assemble_rings(acc.inner)), acc.tags)

\* extract_relation_features from 'if not way_roles["outer"]' on.
FeaturesOfRoles(relation_id, nd, acc) ==
    IF acc.outer = <<>> THEN <<>>
    ELSE FeaturesOfRings(relation_id, nd,
                         ResolveRings(nd, assemble_rings(acc.outer)), acc)

\* extract_relation_features(relation_id, nodes, ways, members, tags)
extract_relation_features(relation_id, nd, wy, members, t) ==
    FeaturesOfRoles(relation_id, nd,
        MemberLoop([outer |-> <<>>, inner |-> <<>>, tags |-> t], members, wy))

(***************************************************************************)
(* collect_features                                                        *)
(***************************************************************************)
\* tags.get("type") not in {"multipolygon", "building"}
TypeAccepted(t) ==
    "type" \in DOMAIN t /\ t["type"] \in {"multipolygon", "building"}

\* any(member_type == "way" and is_building(ways.get(ref, ([], {}))[1]) ...)
member_has_building(members, wy) ==
    \E i \in 1..Len(members) :
        /\ members[i][1] = "way"
        /\ members[i][2] \in DOMAIN wy
        /\ is_building(wy[members[i][2]].tags)

\* The first loop: the ids of the relations appended to relation_candidates.
relation_candidates(rl) == {r \in DOMAIN rl : TypeAccepted(rl[r].tags)}

\* if is_building(tags) or member_has_building
CarriesBuilding(rel, wy) ==
    is_building(rel.tags) \/ member_has_building(rel.members, wy)

\* The "way" refs of a member list.
WayRefs(members) ==
    {members[i][2] : i \in {j \in 1..Len(members) : members[j][1] = "way"}}

\* relation_way_ids that looks at the relation's own tags only.
relation_way_ids_own_tags(wy, rl) ==
    UNION {WayRefs(rl[r].members) :
             r \in {q \in relation_candidates(rl) : is_building(rl[q].tags)}}

\* The first loop: relation_way_ids when it ends.
relation_way_ids(wy, rl) ==
    UNION {WayRefs(rl[r].members) :
             r \in {q \in relation_candidates(rl) : CarriesBuilding(rl[q], wy)}}

\* The second loop, from way way_id on: the features of the simple ways.
RECURSIVE WayLoop(_, _, _, _)
WayLoop(way_id, nd, wy, skip) ==
    IF way_id > Len(wy) THEN <<>>
    ELSE LET node_refs == wy[way_id].refs
             t == wy[way_id].tags
         IN  (IF ~is_building(t) THEN <<>>
              ELSE IF way_id \in skip /\ "building:part" \notin DOMAIN t THEN <<>>
              ELSE extract_way_feature(way_id, nd, node_refs, t))
             \o WayLoop(way_id + 1, nd, wy, skip)

\* The third loop, from relation relation_id on: the features of the
\* relation candidates.
RECURSIVE RelationLoop(_, _, _, _)
RelationLoop(relation_id, nd, wy, rl) ==
    IF relation_id > Len(rl) THEN <<>>
    ELSE (IF relation_id \in relation_candidates(rl)
             /\ CarriesBuilding(rl[relation_id], wy)
          THEN extract_relation_features(relation_id, nd, wy,
                   rl[relation_id].members, rl[relation_id].tags)
          ELSE <<>>)
         \o RelationLoop(relation_id + 1, nd, wy, rl)

\* collect_features(nodes, ways, relations)
collect_features(nd, wy, rl) ==
    WayLoop(1, nd, wy, relation_way_ids(wy, rl)) \o RelationLoop(1, nd, wy, rl)

\* determine_origin(features): the mean of every coordinate, or NoOrigin where
\* it raises ValueError("No geographic coordinates found in OSM input").
NoOrigin == <<None, None>>

RECURSIVE Concat(_)
Concat(ss) == IF ss = <<>> THEN <<>> ELSE Head(ss) \o Concat(Tail(ss))

\* AllCoords that reads the holes only.
AllCoordsOfHoles(fs) == Concat([i \in 1..Len(fs) |-> Concat(fs[i].holes)])

AllCoords(fs) == Concat([i \in 1..Len(fs) |-> fs[i].outer \o Concat(fs[i].holes)])

\* sum(latitudes) / len(latitudes), sum(longitudes) / len(longitudes)
Mean(coords) ==
    IF coords = <<>> THEN NoOrigin
    ELSE <<Fin(SumCoord(coords, 1), Len(coords)),
           Fin(SumCoord(coords, 2), Len(coords))>>

determine_origin(fs) == Mean(AllCoords(fs))

(***************************************************************************)
(* project_feature, build_model                                            *)
(***************************************************************************)
\* project_point(lat, lon, origin_lat, origin_lon).  x is
\* radius * radians(lon - origin_lon) * cos(radians(origin_lat)) and y is
\* radius * (radians(lat) - radians(origin_lat)): the point is kept as the
\* arguments these two products are computed from.
project_point(lat, lon, origin_lat, origin_lon) ==
    [x |-> <<FSub(Fin(lon, 1), origin_lon), origin_lat>>,
     y |-> <<Fin(lat, 1), origin_lat>>]

ProjectRing(r, o) ==
    [i \in 1..Len(r) |-> project_point(r[i][1], r[i][2], o[1], o[2])]

\* project_feature(feature, origin)
project_feature(f, o) ==
    [osm_id |-> f.osm_id,
     outer |-> ProjectRing(f.outer, o),
     holes |-> [i \in 1..Len(f.holes) |-> ProjectRing(f.holes[i], o)],
     tags |-> f.tags]

\* One turn of the loop of build_model: the arguments of its call
\* add_feature_to_model(model, projected, height, min_height).
Call(projected, hm) ==
    [feature |-> projected, height |-> hm[1], min_height |-> hm[2]]

\* LoopCalls whose loop pairs the projected features with the originals
\* taken from the end of the list.
LoopCallsMisaligned(fs, o, dh, lh) ==
    [i \in 1..Len(fs) |->
        Call(project_feature(fs[i], o),
             building_height(fs[Len(fs) + 1 - i].tags, dh, lh))]

\* for original, projected in zip(features, projected_features): the calls
\* of add_feature_to_model, in order.
LoopCalls(fs, o, dh, lh) ==
    [i \in 1..Len(fs) |->
        Call(project_feature(fs[i], o), building_height(fs[i].tags, dh, lh))]

\* _prepare_ring_points(ring) returns points: a ring of 4 points or more,
\* closed where it was not, has 4 points or more.
HasRingPoints(r) == Len(r) >= 4

\* create_geometry_from_feature(feature, height, min_height) reaches the
\* geometry kernel with a curve of the outer ring: extrusion_height is above
\* 0 and the outer ring has points.  It returns None otherwise.
Extrudable(call) ==
    /\ ~FLe(FSub(call.height, call.min_height), Fin(0, 1))
    /\ HasRingPoints(call.feature.outer)

\* attributes.Name = feature.name or feature.osm_id
ObjectName(f) ==
    IF "name" \in DOMAIN f.tags /\ f.tags["name"] # <<>> THEN f.tags["name"]
    ELSE f.osm_id

\* key.startswith("building") or key in {"height", "min_height", "name"}
KeptKeys(t) ==
    {k \in DOMAIN t : \/ StartsWith(Chars(k), Chars("building"))
                      \/ k \in {"height", "min_height", "name"}}

\* The user strings of the object: those set in the loop over the tags, and
\* then "osm:id".
UserStrings(f) ==
    Update([k \in KeptKeys(f.tags) |-> f.tags[k]],
           [k \in {"osm:id"} |-> f.osm_id])

\* The object model.Objects.AddExtrusion or AddBrep adds: the arguments its
\* geometry is built from, and its attributes.
Object(call) ==
    [feature |-> call.feature, height |-> call.height,
     min_height |-> call.min_height,
     name |-> ObjectName(call.feature), strings |-> UserStrings(call.feature)]

\* add_feature_to_model(model, feature, height, min_height), the i-th call:
\* the model is left as it is when geometry is None.  kernel holds the calls
\* for which rhino3dm gives a geometry once it is reached.
add_feature_to_model(file, call, i, kernel) ==
    IF Extrudable(call) /\ i \in kernel
    THEN [file EXCEPT !.objects = Append(@, Object(call))]
    ELSE file

RECURSIVE AddFeatures(_, _, _, _)
AddFeatures(file, cs, i, kernel) ==
    IF i > Len(cs) THEN file
    ELSE AddFeatures(add_feature_to_model(file, cs[i], i, kernel), cs, i + 1, kernel)

\* rhino3dm.File3dm() with the strings origin_lat and origin_lon set.
File3dm(o) == [origin |-> o, objects |-> <<>>]

\* The calls for which the kernel's answer decides.
KernelCalls(cs) == {i \in 1..Len(cs) : Extrudable(cs[i])}

\* build_model(features, origin, default_height=..., level_height=...): the
\* File3dm returned.
build_model(fs, o, dh, lh, kernel) ==
    AddFeatures(File3dm(o), LoopCalls(fs, o, dh, lh), 1, kernel)

(***************************************************************************)
(* The parts of the state a specification leaves alone                     *)
(***************************************************************************)
NoResult == <<None, None>>
NoTags == [k \in {} |-> <<>>]

ParseIdle ==
    /\ fvalue = <<>>
    /\ parsed = None
    /\ fpc = "idle"

ResolverIdle ==
    /\ tags = NoTags
    /\ default_height = Fin(DEFAULT_BUILDING_HEIGHT, 1)
    /\ level_height = Fin(DEFAULT_LEVEL_HEIGHT, 1)
    /\ hres = NoResult
    /\ hpc = "idle"

HeightIdle == ResolverIdle /\ ParseIdle

NoModel == [origin |-> NoOrigin, objects |-> <<>>]

PipelineIdle ==
    /\ nodes = <<>>
    /\ ways = <<>>
    /\ relations = <<>>
    /\ features = <<>>
    /\ origin = NoOrigin
    /\ calls = <<>>
    /\ model = NoModel
    /\ stage = "idle"

RingsIdle ==
    /\ node_sequences = <<>>
    /\ unused = <<>>
    /\ rings = <<>>
    /\ ring = <<>>
    /\ pc = "idle"

(***************************************************************************)
(* assemble_rings, one loop iteration at a time                            *)
(***************************************************************************)
\* The call holds at most MaxFragments sequences.
MaxFragments == 2

NodeIds == 1..3
FragmentLengths == 0..3

FragmentPool == UNION {[1..n -> NodeIds] : n \in FragmentLengths}

\* The two halves of the square 1-2-3-4, in both input orders and with
\* either half reversed.
SquareHalves ==
    {<<a, b>> : a \in {<<1, 2, 3>>, <<3, 2, 1>>}, b \in {<<3, 4, 1>>, <<1, 4, 3>>}}
    \cup {<<b, a>> : a \in {<<1, 2, 3>>, <<3, 2, 1>>}, b \in {<<3, 4, 1>>, <<1, 4, 3>>}}

\* Closed outlines cut into fragments: a pentagon in three fragments and a
\* square in its four edges.
CycleCuts ==
    {<<<<1, 2, 3>>, <<3, 4>>, <<4, 5, 1>>>>,
     <<<<1, 2>>, <<2, 3>>, <<3, 4>>, <<4, 1>>>>}

Orders(n) == {p \in [1..n -> 1..n] : \A i, j \in 1..n : p[i] = p[j] => i = j}

\* The fragments fs in the order p, those that rev marks reversed.
Arrange(fs, p, rev) ==
    [i \in 1..Len(fs) |-> IF rev[i] THEN Reverse(fs[p[i]]) ELSE fs[p[i]]]

\* Every order of the fragments of a cut, with every subset of them reversed.
CycleInputs ==
    UNION {{Arrange(fs, p, rev) : p \in Orders(Len(fs)),
                                  rev \in [1..Len(fs) -> BOOLEAN]} :
           fs \in CycleCuts}

RingInputs ==
    UNION {[1..n -> FragmentPool] : n \in 0..MaxFragments}
        \cup SquareHalves \cup CycleInputs

\* unused = [...]; rings = []
InitRings ==
    /\ HeightIdle
    /\ PipelineIdle
    /\ node_sequences \in RingInputs
    /\ unused = Fragments(node_sequences)
    /\ rings = <<>>
    /\ ring = <<>>
    /\ pc = "outer"

\* while unused: current = unused.pop(); ring = list(current)
StartRing ==
    /\ pc = "outer"
    /\ unused # <<>>
    /\ unused' = SubSeq(unused, 1, Len(unused) - 1)
    /\ IF unused[Len(unused)] = <<>>
       THEN /\ pc' = "outer"
            /\ ring' = ring
       ELSE /\ pc' = "inner"
            /\ ring' = unused[Len(unused)]
    /\ UNCHANGED <<node_sequences, rings>>
    /\ UNCHANGED <<hvars, pvars>>

\* An iteration of the inner while loop whose for loop joins a candidate.
Stitch ==
    /\ pc = "inner"
    /\ IsOpen(ring)
    /\ unused # <<>>
    /\ JoinIndex(ring, unused) # 0
    /\ ring' = Join(ring, unused[JoinIndex(ring, unused)])
    /\ unused' = RemoveAt(unused, JoinIndex(ring, unused))
    /\ pc' = "inner"
    /\ UNCHANGED <<node_sequences, rings>>
    /\ UNCHANGED <<hvars, pvars>>

\* An iteration of the inner while loop whose for loop joins nothing: break.
NoJoin ==
    /\ pc = "inner"
    /\ IsOpen(ring)
    /\ unused # <<>>
    /\ JoinIndex(ring, unused) = 0
    /\ pc' = "close"
    /\ UNCHANGED <<node_sequences, unused, rings, ring>>
    /\ UNCHANGED <<hvars, pvars>>

\* The inner while condition is false: the ring is closed or the pool empty.
LeaveStitching ==
    /\ pc = "inner"
    /\ (~IsOpen(ring) \/ unused = <<>>)
    /\ pc' = "close"
    /\ UNCHANGED <<node_sequences, unused, rings, ring>>
    /\ UNCHANGED <<hvars, pvars>>

\* if ring[0] != ring[-1]: ring.append(ring[0]); rings.append(ring)
CloseRing ==
    /\ pc = "close"
    /\ ring' = ForceClose(ring)
    /\ rings' = Append(rings, ForceClose(ring))
    /\ pc' = "outer"
    /\ UNCHANGED <<node_sequences, unused>>
    /\ UNCHANGED <<hvars, pvars>>

\* The outer while condition is false: return rings.
ReturnRings ==
    /\ pc = "outer"
    /\ unused = <<>>
    /\ pc' = "done"
    /\ UNCHANGED <<node_sequences, unused, rings, ring>>
    /\ UNCHANGED <<hvars, pvars>>

NextRings ==
    \/ StartRing
    \/ Stitch
    \/ NoJoin
    \/ LeaveStitching
    \/ CloseRing
    \/ ReturnRings

SpecRings == InitRings /\ [][NextRings]_vars

\* The function runs on: a call that can take a step takes one.
SpecRingsFair == SpecRings /\ WF_vars(NextRings)

(***************************************************************************)
(* Inputs of the height resolver                                           *)
(***************************************************************************)
\* A tag map holds at most MaxTags of the height-bearing keys.
MaxTags == 3

AllHeightKeys ==
    {"min_height", "building:min_height", "height", "building:height",
     "building:levels"}

HeightStrings ==
    {<<"9">>, <<"5">>, <<"4">>, <<"a", "b", "c">>, <<"n", "a", "n">>,
     <<"i", "n", "f">>}

HeightTagMaps ==
    UNION {[K -> HeightStrings] :
             K \in {K \in SUBSET AllHeightKeys : Cardinality(K) <= MaxTags}}

DefaultHeights == {Fin(DEFAULT_BUILDING_HEIGHT, 1), Fin(2, 1)}
LevelHeights == {Fin(DEFAULT_LEVEL_HEIGHT, 1), Fin(5, 2)}

InitHeight ==
    /\ RingsIdle
    /\ PipelineIdle
    /\ ParseIdle
    /\ tags \in HeightTagMaps
    /\ default_height \in DefaultHeights
    /\ level_height \in LevelHeights
    /\ hres = NoResult
    /\ hpc = "call"

\* The call building_height(tags, default_height=..., level_height=...).
CallBuildingHeight ==
    /\ hpc = "call"
    /\ hres' = building_height(tags, default_height, level_height)
    /\ hpc' = "done"
    /\ UNCHANGED <<tags, default_height, level_height>>
    /\ UNCHANGED <<fvars, avars, pvars>>

NextHeight == CallBuildingHeight

SpecHeight == InitHeight /\ [][NextHeight]_vars

(***************************************************************************)
(* parse_float on one string                                               *)
(***************************************************************************)
\* The strings handed in have at most MaxChars characters.
MaxChars == 4

ParseAlphabet == {"3", "5", ".", ",", ";", "|", "m", "M", " ", "-"}

ParseExamples ==
    {<<"1", "2", ".", "5", "m">>, <<"1", "0", ",", "5">>, <<"3", ";", "4">>,
     <<>>, <<"a", "b", "c">>, <<"2", "e", "1">>, <<"i", "n", "f">>}

ParseInputs ==
    UNION {[1..n -> ParseAlphabet] : n \in 0..MaxChars} \cup ParseExamples

InitParse ==
    /\ ResolverIdle
    /\ RingsIdle
    /\ PipelineIdle
    /\ fvalue \in ParseInputs
    /\ parsed = None
    /\ fpc = "call"

\* The call parse_float(fvalue): it returns a float or None, and raises
\* nothing (the one exception float() raises on a str is caught).
CallParseFloat ==
    /\ fpc = "call"
    /\ parsed' = parse_float(fvalue)
    /\ fpc' = "done"
    /\ UNCHANGED <<fvalue, tags, default_height, level_height, hres, hpc>>
    /\ UNCHANGED <<avars, pvars>>

NextParse == CallParseFloat

SpecParse == InitParse /\ [][NextParse]_vars

(***************************************************************************)
(* The tag-graphs                                                          *)
(***************************************************************************)
\* nodes: the square 1-2-3-4, the triangle 5-6-7 inside it, the square
\* 11-12-13-14 around both, the triangle 8-9-10 inside the large square
\* only, and the triangle 15-16-17 outside everything.
NodeTable ==
    <<<<0, 0>>, <<0, 4>>, <<4, 4>>, <<4, 0>>,
      <<1, 1>>, <<1, 2>>, <<2, 1>>,
      <<6, 6>>, <<6, 7>>, <<7, 6>>,
      <<-1, -1>>, <<-1, 9>>, <<9, 9>>, <<9, -1>>,
      <<11, 11>>, <<11, 12>>, <<12, 11>>>>

\* A node id no node element carries.
AbsentNode == Len(NodeTable) + 1

Yes == <<"y", "e", "s">>

Tag(k, v) == [x \in {k} |-> v]

SquareRefs == <<1, 2, 3, 4, 1>>
TriangleRefs == <<5, 6, 7, 5>>
TwoNodeRefs == <<1, 2>>
DanglingRefs == <<1, 2, AbsentNode, 1>>

Way(r, t) == [refs |-> r, tags |-> t]

\* A way has one of these node sequences: the closed square, the closed
\* triangle, a two-node way, a closed way with a dangling reference.
WayShapes == {SquareRefs, TriangleRefs, TwoNodeRefs, DanglingRefs}

WayTagPool == {NoTags, Tag("building", Yes), Tag("building:part", Yes)}

\* Every shape with every tag map, but for the two-node and the dangling way
\* tagged building:part.
WayPool ==
    {Way(r, t) : r \in WayShapes, t \in WayTagPool}
    \ {Way(r, Tag("building:part", Yes)) : r \in {TwoNodeRefs, DanglingRefs}}

\* The graph holds at most MaxWays ways.
MaxWays == 2

R_part == <<"p", "a", "r", "t">>

\* A way is no member of the relation, or a member with one of these roles.
NotMember == <<"-">>
MembershipPool == {NotMember, R_outer, R_inner, R_part}

RelationTagPool ==
    {Tag("type", "multipolygon"),
     Update(Tag("type", "building"), Tag("building", Yes)),
     Tag("building", Yes)}

\* The members of the relation: the ways with a role, in id order.
RECURSIVE MembersOf(_, _)
MembersOf(roles, i) ==
    IF i > Len(roles) THEN <<>>
    ELSE (IF roles[i] = NotMember THEN <<>> ELSE <<<<"way", i, roles[i]>>>>)
         \o MembersOf(roles, i + 1)

\* The relations of a graph: none (t = NoTags), or one with tags t whose
\* members are the ways with a role.
RelationsOf(m, t) ==
    IF t = NoTags THEN <<>> ELSE <<[members |-> MembersOf(m, 1), tags |-> t]>>

\* The relations rl, the first of them with one more member, if absent is
\* true: a way with the id ref, which no way of the file carries.
WithAbsentMember(rl, absent, ref) ==
    IF absent /\ rl # <<>>
    THEN <<[members |-> Append(rl[1].members, <<"way", ref, R_outer>>),
            tags |-> rl[1].tags]>>
    ELSE rl

(***************************************************************************)
(* convert_osm_to_model, after parse_osm                                   *)
(***************************************************************************)
InitPipeline ==
    /\ HeightIdle
    /\ RingsIdle
    /\ nodes = NodeTable
    /\ \E n \in 0..MaxWays :
          /\ ways \in [1..n -> WayPool]
          /\ \E m \in [1..n -> MembershipPool], t \in RelationTagPool \cup {NoTags},
                absent \in BOOLEAN :
                /\ t = NoTags => \A i \in 1..n : m[i] = NotMember
                /\ relations = WithAbsentMember(RelationsOf(m, t), absent, n + 1)
    /\ features = <<>>
    /\ origin = NoOrigin
    /\ calls = <<>>
    /\ model = NoModel
    /\ stage = "parsed"

\* features = collect_features(nodes, ways, relations)
Collect ==
    /\ stage = "parsed"
    /\ features' = collect_features(nodes, ways, relations)
    /\ stage' = "collected"
    /\ UNCHANGED <<gvars, origin, calls, model>>
    /\ UNCHANGED <<hvars, avars>>

\* if not features: raise ValueError("No buildings found in input")
RaiseNoBuildings ==
    /\ stage = "collected"
    /\ features = <<>>
    /\ stage' = "no_buildings"
    /\ UNCHANGED <<gvars, features, origin, calls, model>>
    /\ UNCHANGED <<hvars, avars>>

\* origin = determine_origin(features), which raises
\* ValueError("No geographic coordinates found in OSM input") or returns.
DetermineOrigin ==
    /\ stage = "collected"
    /\ features # <<>>
    /\ origin' = determine_origin(features)
    /\ stage' = IF origin' = NoOrigin THEN "no_coordinates" ELSE "origin"
    /\ UNCHANGED <<gvars, features, calls, model>>
    /\ UNCHANGED <<hvars, avars>>

\* return build_model(features, origin, default_height=..., level_height=...)
BuildModel ==
    /\ stage = "origin"
    /\ calls' = LoopCalls(features, origin, default_height, level_height)
    /\ \E kernel \in SUBSET KernelCalls(calls') :
          model' = AddFeatures(File3dm(origin), calls', 1, kernel)
    /\ stage' = "built"
    /\ UNCHANGED <<gvars, features, origin>>
    /\ UNCHANGED <<hvars, avars>>

NextPipeline ==
    \/ Collect
    \/ RaiseNoBuildings
    \/ DetermineOrigin
    \/ BuildModel

SpecPipeline == InitPipeline /\ [][NextPipeline]_vars

(***************************************************************************)
(* build_model on a list of features                                       *)
(***************************************************************************)
\* The features a call is given: footprints of ways and of relations, with
\* and without holes, whose tags resolve to different heights.
FeaturePool ==
    {Feature("way", 1, Coords(NodeTable, SquareRefs), <<>>,
             Update(Tag("building", Yes), Tag("height", <<"9">>))),
     Feature("way", 2, Coords(NodeTable, TriangleRefs), <<>>,
             Update(Tag("building", Yes), Tag("building:levels", <<"2">>))),
     Feature("relation", 3, Coords(NodeTable, <<11, 12, 13, 14, 11>>),
             <<Coords(NodeTable, SquareRefs)>>,
             Update(Tag("height", <<"1", "2">>), Tag("min_height", <<"3">>))),
     Feature("relation", 4, Coords(NodeTable, <<11, 12, 13, 14, 11>>),
             <<Coords(NodeTable, TriangleRefs), Coords(NodeTable, <<8, 9, 10, 8>>)>>,
             Tag("building", Yes)),
     Feature("way", 5, Coords(NodeTable, TwoNodeRefs), <<>>,
             Tag("height", <<"4", "m">>))}

\* A call is given at most MaxFeatures features.
MaxFeatures == 2

\* The origins of a call: that of determine_origin, where it returns one,
\* and a point of the caller's.
OriginsOf(fs) ==
    {<<Fin(0, 1), Fin(0, 1)>>}
        \cup (IF AllCoords(fs) = <<>> THEN {} ELSE {determine_origin(fs)})

InitBuild ==
    /\ RingsIdle
    /\ ParseIdle
    /\ tags = NoTags
    /\ hres = NoResult
    /\ hpc = "idle"
    /\ default_height \in DefaultHeights
    /\ level_height \in LevelHeights
    /\ nodes = <<>>
    /\ ways = <<>>
    /\ relations = <<>>
    /\ \E n \in 0..MaxFeatures : features \in [1..n -> FeaturePool]
    /\ origin \in OriginsOf(features)
    /\ calls = <<>>
    /\ model = NoModel
    /\ stage = "origin"

NextBuild == BuildModel

SpecBuild == InitBuild /\ [][NextBuild]_vars

(***************************************************************************)
(* extract_relation_features on one relation                               *)
(***************************************************************************)
LargeSquareRefs == <<11, 12, 13, 14, 11>>
MidTriangleRefs == <<8, 9, 10, 8>>
FarTriangleRefs == <<15, 16, 17, 15>>

\* ways: 1 the square, 2 the large square, 3 the triangle inside both,
\* 4 the triangle inside the large square only, 5 the triangle outside, 6 and
\* 7 the two halves of the square, 8 a way with a dangling reference.
RelationWays ==
    <<Way(SquareRefs, Update(Update(Tag("building", Yes), Tag("height", <<"9">>)),
                             Tag("name", <<"x">>))),
      Way(LargeSquareRefs, NoTags),
      Way(TriangleRefs, Tag("building:part", Yes)),
      Way(MidTriangleRefs, NoTags),
      Way(FarTriangleRefs, NoTags),
      Way(<<1, 2, 3>>, NoTags),
      Way(<<3, 4, 1>>, NoTags),
      Way(DanglingRefs, NoTags)>>

\* A way id no way element carries.
AbsentWay == Len(RelationWays) + 1

R_Outer == <<"O", "u", "t", "e", "r">>
R_HOLE == <<"H", "O", "L", "E">>

\* The members a relation is made of: ways in the outer roles (none, outer,
\* outline, exterior, shell and "Outer"), ways in the inner roles (inner,
\* interior, hole and "HOLE"), a way in the role "part", a node, and a way
\* that is not in the file.
MemberPool ==
    {<<"way", 1, R_outer>>, <<"way", 2, <<>>>>, <<"way", 2, R_Outer>>,
     <<"way", 6, R_outline>>, <<"way", 7, R_exterior>>, <<"way", 8, R_shell>>,
     <<"way", 3, R_inner>>, <<"way", 4, R_interior>>, <<"way", 5, R_hole>>,
     <<"way", 1, R_HOLE>>,
     <<"way", 1, R_part>>,
     <<"node", 1, R_outer>>, <<"way", AbsentWay, R_outer>>}

\* The relation holds at most MaxMembers members.
MaxMembers == 3

RelationOnlyTagPool ==
    {Tag("type", "multipolygon"),
     Update(Tag("type", "multipolygon"), Tag("building", Yes)),
     Update(Tag("type", "multipolygon"), Tag("height", <<"5">>))}

InitRelation ==
    /\ HeightIdle
    /\ RingsIdle
    /\ nodes = NodeTable
    /\ ways = RelationWays
    /\ \E n \in 0..MaxMembers :
          \E m \in [1..n -> MemberPool], t \in RelationOnlyTagPool :
              relations = <<[members |-> m, tags |-> t]>>
    /\ features = <<>>
    /\ origin = NoOrigin
    /\ calls = <<>>
    /\ model = NoModel
    /\ stage = "relation"

\* features.extend(extract_relation_features(relation_id, nodes, ways,
\* members, tags)) for relation 1
ExtractRelation ==
    /\ stage = "relation"
    /\ features' = extract_relation_features(1, nodes, ways,
                       relations[1].members, relations[1].tags)
    /\ stage' = "extracted"
    /\ UNCHANGED <<gvars, origin, calls, model>>
    /\ UNCHANGED <<hvars, avars>>

NextRelation == ExtractRelation

SpecRelation == InitRelation /\ [][NextRelation]_vars

(***************************************************************************)
(* Properties of building_height (SpecHeight)                              *)
(***************************************************************************)
\* C4, as the specification states it: building_height returns a height
\* strictly greater than the min_height it returns, for every tag map and
\* every pair of defaults.
C4_HeightAboveMin == hpc = "done" => FGt(hres[1], hres[2])

\* The reference resolver: the value of the first key of keys, in order, that
\* is in the tag map and parses.
RefFirst(t, keys) ==
    LET parsing == {i \in 1..Len(keys) :
                      keys[i] \in DOMAIN t /\ parse_float(t[keys[i]]) # None}
    IN  IF parsing = {} THEN None
        ELSE parse_float(t[keys[CHOOSE i \in parsing : \A j \in parsing : i <= j]])

RefMinHeight(t) ==
    IF RefFirst(t, <<"min_height", "building:min_height">>) = None THEN Fin(0, 1)
    ELSE RefFirst(t, <<"min_height", "building:min_height">>)

RefRawHeight(t, dh, lh) ==
    IF RefFirst(t, <<"height", "building:height">>) # None
    THEN RefFirst(t, <<"height", "building:height">>)
    ELSE IF RefFirst(t, <<"building:levels">>) # None
         THEN FMul(RefFirst(t, <<"building:levels">>), lh)
         ELSE dh

RefHeight(t, dh, lh) ==
    IF FLe(RefRawHeight(t, dh, lh), RefMinHeight(t))
    THEN FAdd(RefMinHeight(t), FMax(FMul(dh, Fin(1, 4)), Fin(1, 1)))
    ELSE RefRawHeight(t, dh, lh)

HeightExample(t, height, min_height) ==
    (/\ tags = t
     /\ default_height = Fin(DEFAULT_BUILDING_HEIGHT, 1)
     /\ level_height = Fin(DEFAULT_LEVEL_HEIGHT, 1))
    => hres = <<height, min_height>>

\* C10: the pair building_height returns is the pair of the reference
\* resolver (min_height: the first parsing value of min_height then
\* building:min_height, else 0; height: the first parsing value of height then
\* building:height, else levels x level_height, else default_height, replaced
\* by min_height + max(default_height x 0.25, 1) when it is <= min_height),
\* and the three examples give (9, 0), (12, 0) and (7.5, 5).
C10_ReferenceResolver ==
    hpc = "done" =>
        /\ hres = <<RefHeight(tags, default_height, level_height), RefMinHeight(tags)>>
        /\ HeightExample([k \in {"height"} |-> <<"9">>], Fin(9, 1), Fin(0, 1))
        /\ HeightExample([k \in {"building:levels"} |-> <<"4">>], Fin(12, 1), Fin(0, 1))
        /\ HeightExample([k \in {"min_height", "height"} |-> <<"5">>],
                         Fin(15, 2), Fin(5, 1))

\* building_height has returned (7.5, 5) for {min_height: 5, height: 5}
\* with the defaults 10 and 3: the degenerate-height correction has acted.
C10_Witness ==
    /\ hpc = "done"
    /\ tags = [k \in {"min_height", "height"} |-> <<"5">>]
    /\ default_height = Fin(DEFAULT_BUILDING_HEIGHT, 1)
    /\ level_height = Fin(DEFAULT_LEVEL_HEIGHT, 1)
    /\ hres = <<Fin(15, 2), Fin(5, 1)>>

(***************************************************************************)
(* Properties of assemble_rings (SpecRings)                                *)
(***************************************************************************)
\* C5, as the specification states it: the two halves [1,2,3] and [3,4,1] of
\* the square, in either input order and with either half reversed, give
\* exactly the ring [1,2,3,4,1].
C5_ExactRing ==
    (pc = "done" /\ node_sequences \in SquareHalves) => rings = <<<<1, 2, 3, 4, 1>>>>

\* r walks the cycle 1-2-3-4 once, from some id, in one of the two
\* directions, and returns to its start.
WalksSquare(r) ==
    /\ Len(r) = 5
    /\ \E start \in 0..3 :
          \/ \A i \in 1..5 : r[i] = ((start + (i - 1)) % 4) + 1
          \/ \A i \in 1..5 : r[i] = ((start + 8 - (i - 1)) % 4) + 1

\* C5, amended: the two halves, in either input order and with either half
\* reversed, give exactly one ring; it is closed, walks the cycle 1-2-3-4
\* once and begins with the half given last, as given; so it is [1,2,3,4,1]
\* exactly when the half given last is [1,2,3].
C5_SameCycle ==
    (pc = "done" /\ node_sequences \in SquareHalves) =>
        /\ Len(rings) = 1
        /\ WalksSquare(rings[1])
        /\ SubSeq(rings[1], 1, 3) = node_sequences[2]
        /\ (rings[1] = <<1, 2, 3, 4, 1>>) <=> (node_sequences[2] = <<1, 2, 3>>)

\* assemble_rings has returned [3,4,1,2,3] for [[1,2,3],[3,4,1]].
C5_Witness ==
    /\ pc = "done"
    /\ node_sequences = <<<<1, 2, 3>>, <<3, 4, 1>>>>
    /\ rings = <<<<3, 4, 1, 2, 3>>>>

Ids(s) == {s[i] : i \in 1..Len(s)}

\* C6: every ring assemble_rings appends is closed (first id = last id), and
\* no ring is discarded: when it returns, the ids of every fragment of two or
\* more ids are in one of the rings, and a lone open fragment comes back with
\* its own first id appended.
C6_RingsClosed ==
    /\ \A i \in 1..Len(rings) : rings[i][1] = rings[i][Len(rings[i])]
    /\ pc = "done" =>
          /\ \A k \in 1..Len(node_sequences) :
                Len(node_sequences[k]) >= 2 =>
                    \E i \in 1..Len(rings) : Ids(node_sequences[k]) \subseteq Ids(rings[i])
          /\ \A f \in FragmentPool :
                (node_sequences = <<f>> /\ Len(f) >= 2) =>
                    rings = <<IF f[1] = f[Len(f)] THEN f ELSE Append(f, f[1])>>

\* assemble_rings has returned for [[1,2],[2,3]]: the fragments were
\* stitched into [1,2,3], which no fragment closes, and the ring came back
\* force-closed.
C6_Witness ==
    /\ pc = "done"
    /\ node_sequences = <<<<1, 2>>, <<2, 3>>>>
    /\ rings = <<<<1, 2, 3, 1>>>>

(***************************************************************************)
(* Properties of collect_features and the pipeline (SpecPipeline)          *)
(***************************************************************************)
Points(r) == {r[i] : i \in 1..Len(r)}

\* C1, as the specification states it: every Feature collect_features
\* returns has an outer ring of at least 4 points, at least 3 of them
\* distinct, whether it comes from a way or from a relation.
C1_OuterAtLeastFour ==
    \A i \in 1..Len(features) :
        /\ Len(features[i].outer) >= 4
        /\ Cardinality(Points(features[i].outer)) >= 3

HasFeature(kind, id) ==
    \E i \in 1..Len(features) : features[i].osm_id = <<kind, id>>

\* Way w is building-tagged, closed, fully resolvable, of 4 or more ids.
StandaloneCandidate(w) ==
    /\ is_building(ways[w].tags)
    /\ Len(ways[w].refs) >= 4
    /\ ways[w].refs[1] = ways[w].refs[Len(ways[w].refs)]
    /\ \A i \in 1..Len(ways[w].refs) : ways[w].refs[i] \in DOMAIN nodes

\* Relation r qualifies: its type is multipolygon or building, and it or one
\* of its member ways is building-tagged.
Qualifies(r) ==
    /\ "type" \in DOMAIN relations[r].tags
    /\ relations[r].tags["type"] \in {"multipolygon", "building"}
    /\ \/ is_building(relations[r].tags)
       \/ \E i \in 1..Len(relations[r].members) :
             /\ relations[r].members[i][1] = "way"
             /\ relations[r].members[i][2] \in DOMAIN ways
             /\ is_building(ways[relations[r].members[i][2]].tags)

OuterRoles == {<<>>, R_outer, R_outline, R_exterior, R_shell}

\* Relation r has way w as a member, with one of the roles in roles.
RefersTo(r, w, roles) ==
    \E i \in 1..Len(relations[r].members) :
        /\ relations[r].members[i][1] = "way"
        /\ relations[r].members[i][2] = w
        /\ Lower(relations[r].members[i][3]) \in roles

\* C3, as the specification states it: a building-tagged, closed, resolvable
\* way of 4 or more ids yields no way/<id> Feature exactly when it is an
\* outer-role member of a qualifying relation and carries no building:part
\* key; in every other case (an inner-role member included) it yields one.
C3_ExcludedIffOuterMember ==
    stage # "parsed" =>
        \A w \in DOMAIN ways :
            StandaloneCandidate(w) =>
                (~HasFeature("way", w) <=>
                    /\ "building:part" \notin DOMAIN ways[w].tags
                    /\ \E r \in DOMAIN relations :
                          Qualifies(r) /\ RefersTo(r, w, OuterRoles))

AnyRole(r, w) ==
    \E i \in 1..Len(relations[r].members) :
        relations[r].members[i][1] = "way" /\ relations[r].members[i][2] = w

\* C7: no footprint is emitted twice: a way without the building:part key
\* never yields a way/<id> Feature while a relation that references it
\* yields a relation/<id> Feature.
C7_NoDoubleEmission ==
    \A w \in DOMAIN ways :
        "building:part" \notin DOMAIN ways[w].tags =>
            ~(/\ HasFeature("way", w)
              /\ \E r \in DOMAIN relations : AnyRole(r, w) /\ HasFeature("relation", r))

\* collect_features has returned for a building-tagged square that is the
\* outer member of a multipolygon relation: the square is emitted once, as
\* relation/1.
C7_Witness ==
    /\ stage = "collected"
    /\ ways = <<Way(SquareRefs, Tag("building", Yes))>>
    /\ relations = <<[members |-> <<<<"way", 1, R_outer>>>>,
                      tags |-> Tag("type", "multipolygon")]>>
    /\ Len(features) = 1
    /\ features[1].osm_id = <<"relation", 1>>
    /\ features[1].outer = Coords(nodes, SquareRefs)

\* C8: the run ends with "No buildings found" exactly when collect_features
\* returned no Feature, and then no origin was computed; when it returned a
\* Feature determine_origin returns an origin, and the run never ends with
\* "No geographic coordinates found".
C8_RejectedIffEmpty ==
    /\ stage # "parsed" => features = collect_features(nodes, ways, relations)
    /\ stage # "no_coordinates"
    /\ stage \notin {"parsed", "collected"} =>
          (stage = "no_buildings" <=> features = <<>>)
    /\ stage = "no_buildings" => origin = NoOrigin
    /\ stage \in {"origin", "built"} => origin # NoOrigin

\* The run has ended with "No buildings found" on a graph that has ways and
\* a relation, none of which gave a Feature, and no origin was computed.
C8_Witness ==
    /\ stage = "no_buildings"
    /\ ways # <<>>
    /\ relations # <<>>
    /\ features = <<>>
    /\ origin = NoOrigin

(***************************************************************************)
(* Properties of extract_relation_features (SpecRelation)                  *)
(***************************************************************************)
InnerRoles == {R_inner, R_interior, R_hole}

\* way_roles and outer_tags when the loop over the members of relation 1 ends.
WayRoles ==
    MemberLoop([outer |-> <<>>, inner |-> <<>>, tags |-> relations[1].tags],
               relations[1].members, ways)

IsWayMember(m) == m[1] = "way" /\ m[2] \in DOMAIN ways

\* The node sequences of the way members of relation 1 that pass test, in
\* member order.
RefsOf(ms) == [i \in 1..Len(ms) |-> ways[ms[i][2]].refs]

MembersWithRoleIn(roles) ==
    RefsOf(SelectSeq(relations[1].members,
                     LAMBDA m : IsWayMember(m) /\ Lower(m[3]) \in roles))

MembersWithRoleNotIn(roles) ==
    RefsOf(SelectSeq(relations[1].members,
                     LAMBDA m : IsWayMember(m) /\ Lower(m[3]) \notin roles))

\* C2, as the specification states it: the inner group holds the way members
\* whose role is inner, interior or hole, and the outer group holds every
\* other way member: the role is outer, outline, exterior or shell, is
\* missing, or is any other string, such as "part".
C2_UnrecognizedToOuter ==
    stage = "extracted" =>
        /\ WayRoles.inner = MembersWithRoleIn(InnerRoles)
        /\ WayRoles.outer = MembersWithRoleNotIn(InnerRoles)

\* C2, amended: roles are compared in lower case; the outer group holds the
\* way members whose role is missing or is outer, outline, exterior or shell,
\* the inner group those whose role is inner, interior or hole; a way member
\* with any other role, such as "part", is in neither group, and the Features
\* are those of the two groups.
C2_UnrecognizedIgnored ==
    stage = "extracted" =>
        /\ WayRoles.outer = MembersWithRoleIn(OuterRoles)
        /\ WayRoles.inner = MembersWithRoleIn(InnerRoles)
        /\ features = FeaturesOfRoles(1, nodes,
                          [outer |-> MembersWithRoleIn(OuterRoles),
                           inner |-> MembersWithRoleIn(InnerRoles),
                           tags |-> WayRoles.tags])

\* extract_relation_features has returned for a relation whose members are
\* the square with role "part" and the large square with no role: the one
\* Feature is the large square, and the square is in no ring.
C2_Witness ==
    /\ stage = "extracted"
    /\ relations[1].members = <<<<"way", 1, R_part>>, <<"way", 2, <<>>>>>>
    /\ Len(features) = 1
    /\ features[1].outer = Coords(nodes, LargeSquareRefs)
    /\ features[1].holes = <<>>

\* The resolvable assembled outer and inner rings of relation 1.
OuterRings == ResolveRings(nodes, assemble_rings(WayRoles.outer))
InnerRings == ResolveRings(nodes, assemble_rings(WayRoles.inner))

\* The index of the first of the outer rings, in assembled order, that
\* contains the centroid of inner ring h; 0 when none does.
FirstContaining(outer_rings, h) ==
    LET containing == {i \in 1..Len(outer_rings) :
                         ring_contains_point(outer_rings[i], ring_centroid(h))}
    IN  IF containing = {} THEN 0
        ELSE CHOOSE i \in containing : \A j \in containing : i <= j

\* fs holds one Feature per outer ring, in order, and the holes of the
\* Feature of outer ring i are the inner rings first contained by ring i.
OnePerOuterRing(fs, outer_rings, inner_rings) ==
    /\ Len(fs) = Len(outer_rings)
    /\ \A i \in 1..Len(fs) :
          /\ fs[i].osm_id = <<"relation", 1>>
          /\ fs[i].outer = outer_rings[i]
          /\ fs[i].holes =
                SelectSeq(inner_rings,
                          LAMBDA h : FirstContaining(outer_rings, h) = i)

\* C9: one Feature per resolvable assembled outer ring, in assembled order;
\* the holes of the Feature of outer ring i are the resolvable inner rings
\* whose centroid outer ring i is the first to contain, so an inner ring is in
\* the holes of that Feature only, and in none when no outer ring contains
\* its centroid.
C9_HolesToFirstContaining ==
    stage = "extracted" => OnePerOuterRing(features, OuterRings, InnerRings)

\* extract_relation_features has returned for the outer members large
\* square and square and the inner member triangle, which lies in both: the
\* rings are assembled square first, so the triangle is a hole of the
\* square's Feature and of no other.
C9_Witness ==
    /\ stage = "extracted"
    /\ relations[1].members =
           <<<<"way", 2, <<>>>>, <<"way", 1, R_outer>>, <<"way", 3, R_inner>>>>
    /\ Len(features) = 2
    /\ features[1].outer = Coords(nodes, SquareRefs)
    /\ features[1].holes = <<Coords(nodes, TriangleRefs)>>
    /\ features[2].outer = Coords(nodes, LargeSquareRefs)
    /\ features[2].holes = <<>>

(***************************************************************************)
(* Properties of parse_float (SpecParse)                                   *)
(***************************************************************************)
ListSeparators == {";", "|"}

\* Step 3 of the policy: a comma is the decimal separator when the string
\* holds no period.
PolicyComma(s) ==
    IF (\E i \in 1..Len(s) : s[i] = ",") /\ ~(\E i \in 1..Len(s) : s[i] = ".")
    THEN [i \in 1..Len(s) |-> IF s[i] = "," THEN "." ELSE s[i]]
    ELSE s

\* Step 4 of the policy: the first segment, the characters before the first
\* ";" or "|".
PolicyFirstSegment(s) ==
    IF \E i \in 1..Len(s) : s[i] \in ListSeparators
    THEN SubSeq(s, 1, (CHOOSE i \in 1..Len(s) :
                          /\ s[i] \in ListSeparators
                          /\ \A j \in 1..(i - 1) : s[j] \notin ListSeparators) - 1)
    ELSE s

\* Step 5 of the policy: one trailing "m" is stripped.
PolicyUnit(s) ==
    IF s # <<>> /\ s[Len(s)] = "m" THEN SubSeq(s, 1, Len(s) - 1) ELSE s

\* The six steps, in order.
Policy(s) ==
    IF Lower(Strip(s)) = <<>> THEN None
    ELSE PyFloat(PolicyUnit(PolicyFirstSegment(PolicyComma(Lower(Strip(s))))))

ParseExample(s, result) == fvalue = s => parsed = result

\* C11, as the specification states it: parse_float returns, for every
\* string, what the six-step policy gives (a float, or None), and "12.5m"
\* gives 12.5, "10,5" gives 10.5, "3;4" gives 3, "" and "abc" give None.
C11_SixStepPolicy ==
    fpc = "done" =>
        /\ parsed = Policy(fvalue)
        /\ ParseExample(<<"1", "2", ".", "5", "m">>, Fin(25, 2))
        /\ ParseExample(<<"1", "0", ",", "5">>, Fin(21, 2))
        /\ ParseExample(<<"3", ";", "4">>, Fin(3, 1))
        /\ ParseExample(<<>>, None)
        /\ ParseExample(<<"a", "b", "c">>, None)

(***************************************************************************)
(* Properties of the tags extract_relation_features gives (SpecRelation)   *)
(***************************************************************************)
\* The keys a member way hands to the relation: those that begin with
\* "building", height and min_height.
MergedKeys(way_tags) ==
    DOMAIN way_tags \cap {"building", "building:part", "building:levels",
                          "building:height", "building:min_height",
                          "height", "min_height"}

\* The member ways of relation 1 that are in the outer or the inner group
\* and carry building semantics, in member order.
BuildingContributors ==
    SelectSeq(relations[1].members,
              LAMBDA m : /\ IsWayMember(m)
                         /\ Lower(m[3]) \in OuterRoles \cup InnerRoles
                         /\ is_building(ways[m[2]].tags))

\* The tags of the Features of relation 1.
SynthesizedTags(own, contributors) ==
    IF is_building(own) \/ contributors = <<>> THEN own
    ELSE [k \in DOMAIN own \cup MergedKeys(ways[contributors[1][2]].tags) |->
             IF k \in MergedKeys(ways[contributors[1][2]].tags)
             THEN ways[contributors[1][2]].tags[k]
             ELSE own[k]]

\* C12: the tags of every Feature of a relation are the relation's own tags
\* when those carry building semantics; otherwise they are the relation's
\* tags with the building-prefixed, height and min_height keys of the first
\* member way, in member order, that is in a group and carries building
\* semantics written over them, and nothing of any later member way; and
\* the tag maps handed in (the relation's, the ways') are never modified.
C12_FirstBuildingMember ==
    /\ [](stage = "extracted" =>
            \A i \in 1..Len(features) :
                features[i].tags = SynthesizedTags(relations[1].tags,
                                                   BuildingContributors))
    /\ [][relations' = relations /\ ways' = ways]_vars

\* extract_relation_features has returned for a relation carrying height=5
\* and no building key, whose members are the square in the ignored role
\* "part", the building:part triangle as inner and the building square as
\* outer: the tags are the relation's and the triangle's building:part, and
\* nothing of the square.
C12_Witness ==
    /\ stage = "extracted"
    /\ relations[1].tags = Update(Tag("type", "multipolygon"), Tag("height", <<"5">>))
    /\ relations[1].members =
           <<<<"way", 1, R_part>>, <<"way", 3, R_inner>>, <<"way", 1, R_outer>>>>
    /\ Len(features) = 1
    /\ features[1].tags =
           [k \in {"type", "height", "building:part"} |->
               CASE k = "type" -> "multipolygon"
                 [] k = "height" -> <<"5">>
                 [] k = "building:part" -> Yes]

(***************************************************************************)
(* Properties of collect_features on dangling references (SpecPipeline)    *)
(***************************************************************************)
Dangling(refs) == \E i \in 1..Len(refs) : refs[i] \notin DOMAIN nodes

LookUp(refs) == [i \in 1..Len(refs) |-> nodes[refs[i]]]

\* The node sequences of the members of relation 1 that are ways of the file
\* with a role in roles, in member order.
GroupOf(roles) ==
    IF relations = <<>> THEN <<>> ELSE MembersWithRoleIn(roles)

\* The Features of relation 1 are those of the rings, of the assembled outer
\* rings outer_ids, that hold no absent id, in order and with the nodes'
\* coordinates; their holes are among the assembled inner rings inner_ids
\* that hold no absent id.
FeaturesOfResolvable(fs, outer_ids, inner_ids) ==
    /\ Len(fs) = Len(outer_ids)
    /\ \A i \in 1..Len(fs) :
          /\ fs[i].outer = LookUp(outer_ids[i])
          /\ \A j \in 1..Len(fs[i].holes) :
                \E k \in 1..Len(inner_ids) : fs[i].holes[j] = LookUp(inner_ids[k])

\* The relations, without the members that refer to a way not in the file.
WithoutAbsentWays ==
    [r \in DOMAIN relations |->
        [members |-> SelectSeq(relations[r].members,
                               LAMBDA m : m[1] # "way" \/ m[2] \in DOMAIN ways),
         tags |-> relations[r].tags]]

\* C13: collect_features returns on every graph, and a dangling reference
\* drops only what holds it: a way with an absent node id gives no Feature;
\* a building way without one, closed, of 4 or more ids and left to the way
\* path, gives its Feature with the nodes' coordinates; the Features of a
\* qualifying relation are those of its assembled outer rings that hold no
\* absent id (none when every outer ring holds one), with holes among the
\* assembled inner rings that hold none; members that refer to absent ways
\* change nothing; and every coordinate of a Feature is a node's.
C13_DanglingOnlyDrops ==
    stage = "collected" =>
        /\ \A w \in DOMAIN ways : Dangling(ways[w].refs) => ~HasFeature("way", w)
        /\ \A w \in DOMAIN ways :
              (/\ StandaloneCandidate(w)
               /\ \/ "building:part" \in DOMAIN ways[w].tags
                  \/ ~\E r \in DOMAIN relations : Qualifies(r) /\ AnyRole(r, w))
              => \E i \in 1..Len(features) :
                    /\ features[i].osm_id = <<"way", w>>
                    /\ features[i].outer = LookUp(ways[w].refs)
        /\ FeaturesOfResolvable(
               SelectSeq(features, LAMBDA f : f.osm_id[1] = "relation"),
               IF relations # <<>> /\ Qualifies(1)
               THEN SelectSeq(assemble_rings(GroupOf(OuterRoles)),
                              LAMBDA r : ~Dangling(r))
               ELSE <<>>,
               SelectSeq(assemble_rings(GroupOf(InnerRoles)),
                         LAMBDA r : ~Dangling(r)))
        /\ features = collect_features(nodes, ways, WithoutAbsentWays)
        /\ \A i \in 1..Len(features) :
              Points(features[i].outer) \cup
              UNION {Points(features[i].holes[j]) : j \in 1..Len(features[i].holes)}
                  \subseteq Points(nodes)

\* collect_features has returned for a multipolygon relation whose outer
\* members are a way with a dangling reference, the building triangle and a
\* way that is not in the file: the dangling ring is dropped, the absent way
\* ignored, and the triangle is emitted as relation/1.
C13_Witness ==
    /\ stage = "collected"
    /\ ways = <<Way(DanglingRefs, NoTags), Way(TriangleRefs, Tag("building", Yes))>>
    /\ relations = <<[members |-> <<<<"way", 1, R_outer>>, <<"way", 2, R_outer>>,
                                    <<"way", 3, R_outer>>>>,
                      tags |-> Tag("type", "multipolygon")]>>
    /\ Len(features) = 1
    /\ features[1].osm_id = <<"relation", 1>>
    /\ features[1].outer = Coords(nodes, TriangleRefs)

(***************************************************************************)
(* Termination of assemble_rings (SpecRingsFair)                           *)
(***************************************************************************)
\* C14: assemble_rings terminates: an iteration of the outer loop removes
\* one fragment from the pool; an iteration of the inner loop removes one
\* fragment and stays in the loop, or leaves the loop with the pool as it
\* is; no step adds to the pool; and the call returns, with the pool empty.
C14_PoolShrinks ==
    /\ [][/\ (pc = "outer" /\ pc' # "done") => Len(unused') = Len(unused) - 1
          /\ pc = "inner" =>
                \/ pc' = "inner" /\ Len(unused') = Len(unused) - 1
                \/ pc' = "close" /\ unused' = unused
          /\ Len(unused') <= Len(unused)]_vars
    /\ <>(pc = "done" /\ unused = <<>>)

\* assemble_rings has returned two rings for two fragments: the first ring
\* left the inner loop with a fragment still in the pool, and the outer loop
\* ran twice.
C14_Witness ==
    /\ pc = "done"
    /\ unused = <<>>
    /\ Len(node_sequences) = 2
    /\ Len(rings) = 2
    /\ rings[1][1] # rings[2][1]

(***************************************************************************)
(* assemble_rings on rings that are already closed                         *)
(***************************************************************************)
\* The call was given one fragment, of two ids or more (the fragments the
\* function keeps), whose first id is its last id.
SingleClosedFragment ==
    /\ Len(node_sequences) = 1
    /\ Len(node_sequences[1]) >= 2
    /\ ~IsOpen(node_sequences[1])

\* C15: assemble_rings is idempotent on a closed ring. When the call was
\* given a single closed fragment, the returned list holds exactly that
\* fragment, unchanged; and assemble_rings applied to the returned list
\* returns the same list.
C15_ClosedRingUnchanged ==
    (pc = "done" /\ SingleClosedFragment) =>
        /\ rings = node_sequences
        /\ assemble_rings(rings) = rings

\* A call on one closed fragment of three ids has returned.
C15_Witness ==
    /\ pc = "done"
    /\ SingleClosedFragment
    /\ Len(node_sequences[1]) = 3
    /\ node_sequences[1][2] # node_sequences[1][1]
    /\ rings = node_sequences

(***************************************************************************)
(* assemble_rings on the fragments of one simple cycle                     *)
(***************************************************************************)
IdsOf(f) == {f[i] : i \in 1..Len(f)}

SimplePath(f) == Len(f) >= 2 /\ Cardinality(IdsOf(f)) = Len(f)

Endpoints(f) == {f[1], f[Len(f)]}

\* The fragments of seqs that hold id x.
Holding(seqs, x) == {i \in 1..Len(seqs) : x \in IdsOf(seqs[i])}

\* The fragments reachable from those of S through shared ids, in at most
\* n further steps.
RECURSIVE Linked(_, _, _)
Linked(seqs, S, n) ==
    IF n = 0 THEN S
    ELSE Linked(seqs,
                S \cup {j \in 1..Len(seqs) :
                            \E i \in S : IdsOf(seqs[i]) \cap IdsOf(seqs[j]) # {}},
                n - 1)

\* The fragments together form one simple cycle: each is a simple path, each
\* endpoint id is shared by exactly two fragments (as an endpoint of both),
\* no other id is shared, and the fragments hang together.
SimpleCycleCut(seqs) ==
    /\ Len(seqs) >= 2
    /\ \A i \in 1..Len(seqs) : SimplePath(seqs[i])
    /\ \A i \in 1..Len(seqs) : \A x \in IdsOf(seqs[i]) :
          IF x \in Endpoints(seqs[i])
          THEN /\ Cardinality(Holding(seqs, x)) = 2
               /\ \A j \in Holding(seqs, x) : x \in Endpoints(seqs[j])
          ELSE Holding(seqs, x) = {i}
    /\ Linked(seqs, {1}, Len(seqs)) = 1..Len(seqs)

CycleIds(seqs) == UNION {IdsOf(seqs[i]) : i \in 1..Len(seqs)}

\* Ids a and b are next to each other somewhere in ring r.
Adjacent(r, a, b) ==
    \E j \in 1..(Len(r) - 1) : {r[j], r[j + 1]} = {a, b}

\* Ring r walks the cycle cut into seqs: closed, every id of the cycle once
\* apart from the closing id, every consecutive pair of every fragment
\* adjacent.
WalksCycle(r, seqs) ==
    /\ Len(r) = Cardinality(CycleIds(seqs)) + 1
    /\ r[1] = r[Len(r)]
    /\ {r[j] : j \in 1..(Len(r) - 1)} = CycleIds(seqs)
    /\ \A i \in 1..Len(seqs) : \A k \in 1..(Len(seqs[i]) - 1) :
          Adjacent(r, seqs[i][k], seqs[i][k + 1])

\* C16: for fragments that together form one simple cycle, in any order
\* and with any of them reversed, assemble_rings returns exactly one ring;
\* the ring is closed, holds every id of the cycle exactly once apart from
\* the repeated closing id, and has every fragment's consecutive ids as
\* adjacent ids.
C16_OneRingPerCycle ==
    (pc = "done" /\ SimpleCycleCut(node_sequences)) =>
        /\ Len(rings) = 1
        /\ WalksCycle(rings[1], node_sequences)

\* A call on the four edges of a square has returned one ring that walks
\* the first edge given backwards and another edge forwards.
C16_Witness ==
    /\ pc = "done"
    /\ SimpleCycleCut(node_sequences)
    /\ Len(node_sequences) = 4
    /\ Len(rings) = 1
    /\ \E j \in 1..(Len(rings[1]) - 1) :
          /\ rings[1][j] = node_sequences[1][2]
          /\ rings[1][j + 1] = node_sequences[1][1]
    /\ \E i \in 2..4 : \E j \in 1..(Len(rings[1]) - 1) :
          /\ rings[1][j] = node_sequences[i][1]
          /\ rings[1][j + 1] = node_sequences[i][2]

(***************************************************************************)
(* project_feature and build_model keep their inputs and the pairing       *)
(***************************************************************************)
\* Feature p is a projection of Feature f: the same osm_id and tags, as many
\* points in the outer ring, as many holes, as many points in each hole.
ProjectionOf(p, f) ==
    /\ p.osm_id = f.osm_id
    /\ p.tags = f.tags
    /\ Len(p.outer) = Len(f.outer)
    /\ Len(p.holes) = Len(f.holes)
    /\ \A j \in 1..Len(f.holes) : Len(p.holes[j]) = Len(f.holes[j])

\* The i-th call of add_feature_to_model was given a projection of the i-th
\* feature and the height and min_height resolved from that feature's tags.
PairedWith(call, f) ==
    /\ ProjectionOf(call.feature, f)
    /\ <<call.height, call.min_height>>
          = building_height(f.tags, default_height, level_height)

\* C17: project_feature and build_model leave their inputs unchanged and
\* keep the pairing of features. Once build_model has returned, it has made
\* one add_feature_to_model call per feature, in order; the Feature of the
\* i-th call keeps the i-th feature's osm_id, tags, number of holes and
\* number of points in the outer ring and in each hole, and the i-th call's
\* height and min_height are those resolved from the i-th feature's tags;
\* the File3dm returned holds the objects of these calls, for the calls in
\* which the kernel gave a geometry; and no step changes the features, the
\* origin or the two height defaults.
C17_PairingKept ==
    /\ [](stage = "built" =>
            /\ Len(calls) = Len(features)
            /\ \A i \in 1..Len(features) : PairedWith(calls[i], features[i])
            /\ \E kernel \in SUBSET (1..Len(features)) :
                  model = build_model(features, origin, default_height,
                                      level_height, kernel))
    /\ [][/\ features' = features
          /\ origin' = origin
          /\ default_height' = default_height
          /\ level_height' = level_height]_vars

\* build_model has returned on two features whose heights differ, the
\* second with a hole, and the File3dm holds an object for each.
C17_Witness ==
    /\ stage = "built"
    /\ Len(features) = 2
    /\ Len(calls) = 2
    /\ calls[1].height # calls[2].height
    /\ features[2].holes # <<>>
    /\ Len(calls[2].feature.holes) = Len(features[2].holes)
    /\ calls[2].feature.outer[1]
          = project_point(features[2].outer[1][1], features[2].outer[1][2],
                          origin[1], origin[2])
    /\ Len(model.objects) = 2
    /\ model.objects[2].height = calls[2].height
    /\ model.objects[2].strings["osm:id"] = features[2].osm_id

(***************************************************************************)
(* collect_features: the outline of a way skipped for a relation           *)
(***************************************************************************)
\* The coordinates of the outer ring and of the holes of Feature f.
CoordsOfFeature(f) ==
    {f.outer[k] : k \in 1..Len(f.outer)}
        \cup UNION {{f.holes[j][k] : k \in 1..Len(f.holes[j])} :
                    j \in 1..Len(f.holes)}

\* Way w, which would make a Feature of its own, has none, and a relation
\* has it as a member.
SkippedForRelation(w) ==
    /\ StandaloneCandidate(w)
    /\ ~HasFeature("way", w)
    /\ \E r \in DOMAIN relations : AnyRole(r, w)

\* A relation/<id> Feature of a relation that has way w as a member holds
\* the coordinates of every node of w in its outer ring or its holes.
OutlineKept(w) ==
    \E i \in 1..Len(features) : \E r \in DOMAIN relations :
        /\ AnyRole(r, w)
        /\ features[i].osm_id = <<"relation", r>>
        /\ \A k \in 1..Len(ways[w].refs) :
              nodes[ways[w].refs[k]] \in CoordsOfFeature(features[i])

\* C18: no building outline is lost by the exclusion of relation members in
\* collect_features: whenever a building-tagged, closed, fully resolvable
\* way of 4 or more ids is skipped as a standalone Feature because a
\* relation references it, whatever the member's role, collect_features
\* returns a relation/<id> Feature whose outer ring or holes hold that
\* way's node coordinates.
C18_NoOutlineLost ==
    stage # "parsed" =>
        \A w \in DOMAIN ways : SkippedForRelation(w) => OutlineKept(w)

====
